---------------------------- MODULE Spec2Model ----------------------------
(***************************************************************************)
(* The register accessor of the Unicorn engine for x86 and SPARC:          *)
(*   qemu/target/i386/unicorn.c  and  qemu/target/sparc/unicorn.c          *)
(*                                                                         *)
(* A register value is a little-endian sequence of bytes, so that the      *)
(* 64-bit slots of the state record keep their width: a C conversion to a  *)
(* narrower unsigned type keeps the low bytes, a conversion to a wider one *)
(* appends zero bytes.  A bit mask (hflags, efer, descriptor flags) is the *)
(* set of the names of its bits.  A size pointer that may be NULL is a     *)
(* sequence of length 0 or 1.                                              *)
(***************************************************************************)
EXTENDS Integers, Sequences, FiniteSets, TLC

VARIABLES
    arch,           \* "x86" | "sparc": which *_uc_init set up the engine
    mode,           \* uc->mode (and ctx->mode): 16, 32, 64 on x86; 32 on SPARC
    env,            \* the live CPU's state record (uc->cpu->env_ptr)
    ctx,            \* a snapshot's state record (ctx->data)
    quit_request,   \* uc->quit_request
    working,        \* what the caller of this run works on: handle and identifiers
    last            \* the last call: its arguments, return value, buffers, events

vars == <<arch, mode, env, ctx, quit_request, working, last>>

----------------------------------------------------------------------------
(* Bounds of the model.                                                    *)

\* how many distinct values the caller writes to an identifier
NumPatterns == 1
\* a declared size differs from the width by at most this many bytes
MaxSizeDelta == 1
\* the longest identifier list of one batch call
MaxBatch == 2

----------------------------------------------------------------------------
(* Bytes.                                                                  *)

Zero(n) == [i \in 1..n |-> 0]

\* (uintN_t)v : keep the low n bytes, or zero-extend to n bytes
Cast(v, n) == IF Len(v) >= n THEN SubSeq(v, 1, n) ELSE v \o Zero(n - Len(v))

\* v + k on Len(v) bytes, wrapping around (k a small natural number)
RECURSIVE AddBytes(_, _)
AddBytes(v, k) ==
    IF Len(v) = 0 THEN <<>>
    ELSE LET s == v[1] + k
         IN <<s % 256>> \o AddBytes(Tail(v), s \div 256)

\* a + b + c on Len(a) bytes, wrapping around (c the carry in)
RECURSIVE AddSeqCarry(_, _, _)
AddSeqCarry(a, b, c) ==
    IF Len(a) = 0 THEN <<>>
    ELSE LET s == a[1] + b[1] + c
         IN <<s % 256>> \o AddSeqCarry(Tail(a), Tail(b), s \div 256)
AddSeq(a, b) == AddSeqCarry(a, b, 0)

\* -a and a - b on Len(a) bytes, wrapping around
NegSeq(a) == AddBytes([i \in 1..Len(a) |-> 255 - a[i]], 1)
SubSeq64(a, b) == AddSeq(a, NegSeq(b))

\* v * k + c on Len(v) bytes, wrapping around (k a small natural number)
RECURSIVE MulBytes(_, _, _)
MulBytes(v, k, c) ==
    IF Len(v) = 0 THEN <<>>
    ELSE LET s == v[1] * k + c
         IN <<s % 256>> \o MulBytes(Tail(v), k, s \div 256)

\* a store of the bytes v at the start of the caller's buffer buf; bytes that
\* do not fit land outside the buffer
StoreBuf(buf, v) ==
    IF Len(buf) >= Len(v) THEN v \o SubSeq(buf, Len(v) + 1, Len(buf))
    ELSE SubSeq(v, 1, Len(buf))

\* the position of x in the sequence s, from 0: regid - UC_..._REG_<first>
IndexOf(s, x) == (CHOOSE i \in 1..Len(s) : s[i] = x) - 1

Range(s) == {s[i] : i \in 1..Len(s)}

UC_ERR_OK == "UC_ERR_OK"
UC_ERR_ARG == "UC_ERR_ARG"

\* CHECK_REG_TYPE(type) with sizeof(type) = width: TRUE when the access goes on
\* (and ret becomes UC_ERR_OK), FALSE when the macro returns UC_ERR_ARG
CHECK_REG_TYPE(size, width) == size = <<>> \/ size[1] = width


\* sizes ? sizes + i : NULL
SizeAt(sizes, i) == IF sizes = <<>> THEN <<>> ELSE <<sizes[i]>>

----------------------------------------------------------------------------
(* SPARC: qemu/target/sparc/unicorn.c                                      *)

SPARC_G == <<"G0", "G1", "G2", "G3", "G4", "G5", "G6", "G7">>
SPARC_O == <<"O0", "O1", "O2", "O3", "O4", "O5", "O6", "O7">>
SPARC_L == <<"L0", "L1", "L2", "L3", "L4", "L5", "L6", "L7">>
SPARC_I == <<"I0", "I1", "I2", "I3", "I4", "I5", "I6", "I7">>

\* CPUSPARCState as the accessor sees it; regwptr is an index into regbase
SparcBlank ==
    [gregs   |-> [i \in 0..7 |-> Zero(4)],
     regbase |-> [i \in 0..23 |-> Zero(4)],
     regwptr |-> 0,
     pc      |-> Zero(4),
     npc     |-> Zero(4)]

sparc_reg_reset(e) ==
    [e EXCEPT !.gregs = [i \in 0..7 |-> Zero(4)],
              !.regbase = [i \in DOMAIN e.regbase |-> Zero(4)],
              !.pc = Zero(4),
              !.npc = Zero(4),
              !.regwptr = 0]

\* sparc_set_pc: the 64-bit address into the 32-bit pc, npc right behind it
sparc_set_pc(e, address) ==
    [e EXCEPT !.pc = Cast(address, 4), !.npc = AddBytes(Cast(address, 4), 4)]

\* sparc_get_pc: pc as a uint64_t
sparc_get_pc(e) == Cast(e.pc, 8)

\* static reg_read: the value buffer after the call, and the return value
reg_read_sparc(e, regid, value, size) ==
    LET arg == [ret |-> UC_ERR_ARG, value |-> value]
        ok(v) == [ret |-> UC_ERR_OK, value |-> StoreBuf(value, v)]
    IN  IF regid \in Range(SPARC_G) THEN
            IF ~CHECK_REG_TYPE(size, 4) THEN arg
            ELSE ok(e.gregs[IndexOf(SPARC_G, regid)])
        ELSE IF regid \in Range(SPARC_O) THEN
            IF ~CHECK_REG_TYPE(size, 4) THEN arg
            ELSE ok(e.regbase[e.regwptr + IndexOf(SPARC_O, regid)])
        ELSE IF regid \in Range(SPARC_L) THEN
            IF ~CHECK_REG_TYPE(size, 4) THEN arg
            ELSE ok(e.regbase[e.regwptr + 8 + IndexOf(SPARC_L, regid)])
        ELSE IF regid \in Range(SPARC_I) THEN
            \* no CHECK_REG_TYPE here: the store happens, ret stays UC_ERR_ARG
            [ret |-> UC_ERR_ARG,
             value |-> StoreBuf(value,
                           e.regbase[e.regwptr + 16 + IndexOf(SPARC_I, regid)])]
        ELSE IF regid = "PC" THEN
            IF ~CHECK_REG_TYPE(size, 4) THEN arg
            ELSE ok(e.pc)
        ELSE arg

\* static reg_write: the state record after the call, and the return value
reg_write_sparc(e, regid, value, size) ==
    LET arg == [ret |-> UC_ERR_ARG, env |-> e]
        ok(f) == [ret |-> UC_ERR_OK, env |-> f]
        v == Cast(value, 4)
    IN  IF regid \in Range(SPARC_G) THEN
            IF ~CHECK_REG_TYPE(size, 4) THEN arg
            ELSE ok([e EXCEPT !.gregs[IndexOf(SPARC_G, regid)] = v])
        ELSE IF regid \in Range(SPARC_O) THEN
            IF ~CHECK_REG_TYPE(size, 4) THEN arg
            ELSE ok([e EXCEPT !.regbase[e.regwptr + IndexOf(SPARC_O, regid)] = v])
        ELSE IF regid \in Range(SPARC_L) THEN
            IF ~CHECK_REG_TYPE(size, 4) THEN arg
            ELSE ok([e EXCEPT !.regbase[e.regwptr + 8 + IndexOf(SPARC_L, regid)] = v])
        ELSE IF regid \in Range(SPARC_I) THEN
            IF ~CHECK_REG_TYPE(size, 4) THEN arg
            ELSE ok([e EXCEPT !.regbase[e.regwptr + 16 + IndexOf(SPARC_I, regid)] = v])
        ELSE IF regid = "PC" THEN
            IF ~CHECK_REG_TYPE(size, 4) THEN arg
            ELSE ok([e EXCEPT !.pc = v, !.npc = AddBytes(v, 4)])
        ELSE arg

\* the loop of sparc_reg_read, from element i on
RECURSIVE sparc_read_loop(_, _, _, _, _)
sparc_read_loop(e, regs, vals, sizes, i) ==
    IF i > Len(regs) THEN [ret |-> UC_ERR_OK, out |-> vals]
    ELSE LET r == reg_read_sparc(e, regs[i], vals[i], SizeAt(sizes, i))
             out == [vals EXCEPT ![i] = r.value]
         IN  IF r.ret # UC_ERR_OK THEN [ret |-> r.ret, out |-> out]
             ELSE sparc_read_loop(e, regs, out, sizes, i + 1)

\* sparc_context_reg_read going on to the next element after one failed
RECURSIVE sparc_context_read_loop_no_stop(_, _, _, _, _)
sparc_context_read_loop_no_stop(e, regs, vals, sizes, i) ==
    IF i > Len(regs) THEN [ret |-> UC_ERR_OK, out |-> vals]
    ELSE LET r == reg_read_sparc(e, regs[i], vals[i], SizeAt(sizes, i))
         IN  sparc_context_read_loop_no_stop(e, regs, [vals EXCEPT ![i] = r.value],
                                             sizes, i + 1)

\* the loop of sparc_context_reg_read, from element i on
RECURSIVE sparc_context_read_loop(_, _, _, _, _)
sparc_context_read_loop(e, regs, vals, sizes, i) ==
    IF i > Len(regs) THEN [ret |-> UC_ERR_OK, out |-> vals]
    ELSE LET r == reg_read_sparc(e, regs[i], vals[i], SizeAt(sizes, i))
             out == [vals EXCEPT ![i] = r.value]
         IN  IF r.ret # UC_ERR_OK THEN [ret |-> r.ret, out |-> out]
             ELSE sparc_context_read_loop(e, regs, out, sizes, i + 1)

\* the event of raising the abort request: uc->quit_request = true and
\* break_translation_loop(uc), with the program counter the record holds then
RaiseEvent(i, pc) == [e |-> "quit_request", at |-> i, pc |-> pc]

\* what sparc_reg_write does after element i was written
sparc_after_write(regid, i, e, quit, ev) ==
    IF regid = "PC"
    THEN [quit |-> TRUE, ev |-> Append(ev, RaiseEvent(i, e.pc))]
    ELSE [quit |-> quit, ev |-> ev]

\* the loop of sparc_reg_write, from element i on
RECURSIVE sparc_write_loop(_, _, _, _, _, _, _)
sparc_write_loop(e, quit, regs, vals, sizes, i, ev) ==
    IF i > Len(regs) THEN [ret |-> UC_ERR_OK, env |-> e, quit |-> quit, ev |-> ev]
    ELSE LET r == reg_write_sparc(e, regs[i], vals[i], SizeAt(sizes, i))
         IN  IF r.ret # UC_ERR_OK
             THEN [ret |-> r.ret, env |-> r.env, quit |-> quit, ev |-> ev]
             ELSE LET a == sparc_after_write(regs[i], i, r.env, quit, ev)
                  IN  sparc_write_loop(r.env, a.quit, regs, vals, sizes, i + 1, a.ev)

\* the loop of sparc_context_reg_write, from element i on
RECURSIVE sparc_context_write_loop(_, _, _, _, _)
sparc_context_write_loop(e, regs, vals, sizes, i) ==
    IF i > Len(regs) THEN [ret |-> UC_ERR_OK, env |-> e]
    ELSE LET r == reg_write_sparc(e, regs[i], vals[i], SizeAt(sizes, i))
         IN  IF r.ret # UC_ERR_OK THEN [ret |-> r.ret, env |-> r.env]
             ELSE sparc_context_write_loop(r.env, regs, vals, sizes, i + 1)

----------------------------------------------------------------------------
(* x86: qemu/target/i386/unicorn.c.  First the collaborators the file      *)
(* calls: the sub-register macros, the segment, control-register, flags,   *)
(* floating-point and model-specific-register routines of the CPU core.    *)

Bit(b, n) == (b \div (2 ^ n)) % 2

\* a & m on one byte
RECURSIVE AndByteFrom(_, _, _)
AndByteFrom(a, m, n) ==
    IF n > 7 THEN 0
    ELSE (Bit(a, n) * Bit(m, n)) * (2 ^ n) + AndByteFrom(a, m, n + 1)
AndByte(a, m) == AndByteFrom(a, m, 0)

\* a | m on one byte
OrByte(a, m) == a + m - AndByte(a, m)

\* a conversion of a signed int to the 64-bit unsigned type: sign extension
SExt(v, n) ==
    IF Len(v) >= n THEN SubSeq(v, 1, n)
    ELSE v \o [i \in 1..(n - Len(v)) |-> IF v[Len(v)] >= 128 THEN 255 ELSE 0]

READ_QWORD(x) == Cast(x, 8)
READ_DWORD(x) == SubSeq(x, 1, 4)
READ_WORD(x) == SubSeq(x, 1, 2)
READ_BYTE_H(x) == <<x[2]>>
READ_BYTE_L(x) == <<x[1]>>
WRITE_DWORD(x, w) == Cast(w, 4) \o SubSeq(x, 5, Len(x))
WRITE_WORD(x, w) == Cast(w, 2) \o SubSeq(x, 3, Len(x))
WRITE_BYTE_H(x, b) == <<x[1], b[1]>> \o SubSeq(x, 3, Len(x))
WRITE_BYTE_L(x, b) == <<b[1]>> \o SubSeq(x, 2, Len(x))

GprSlots ==
    {"R_EAX", "R_ECX", "R_EDX", "R_EBX", "R_ESP", "R_EBP", "R_ESI", "R_EDI",
     "8", "9", "10", "11", "12", "13", "14", "15"}
SegSlots == {"R_ES", "R_CS", "R_SS", "R_DS", "R_FS", "R_GS"}

\* SegmentCache
SegZero == [selector |-> Zero(4), base |-> Zero(8), limit |-> Zero(4), flags |-> {}]

\* the model-specific registers helper_rdmsr and helper_wrmsr implement
\* (0xC0000100 here); any other index is silently ignored
SupportedMsr == {<<0, 1, 0, 192>>}

\* CPUX86State as the accessor and the reset see it
X86Blank ==
    [regs      |-> [r \in GprSlots |-> Zero(8)],
     eip       |-> Zero(8),
     segs      |-> [g \in SegSlots |-> SegZero],
     ldt       |-> SegZero,
     gdt       |-> SegZero,
     tr        |-> SegZero,
     idt       |-> SegZero,
     cr        |-> [i \in 0..4 |-> Zero(8)],
     dr        |-> [i \in 0..7 |-> Zero(8)],
     eflags    |-> Zero(8),
     cc_src    |-> Zero(8),
     cc_op     |-> "CC_OP_EFLAGS",
     df        |-> 1,
     hflags    |-> {},
     efer      |-> {},
     fpregs    |-> [i \in 0..7 |-> Zero(10)],
     fpstt     |-> 0,
     fpus      |-> Zero(2),
     fpuc      |-> Zero(2),
     fptags    |-> [i \in 0..7 |-> 0],
     fpip      |-> Zero(8),
     fpdp      |-> Zero(8),
     fpcs      |-> Zero(2),
     fpds      |-> Zero(2),
     fpop      |-> Zero(2),
     mxcsr     |-> Zero(4),
     xmm_regs  |-> [i \in 0..15 |-> Zero(16)],
     ymmh_regs |-> [i \in 0..15 |-> Zero(16)],
     msrs      |-> [r \in SupportedMsr |-> Zero(8)]]

\* CR0_PE_MASK set in env->cr[0]
ProtectedMode(e) == Bit(e.cr[0][1], 0) = 1

\* cpu_x86_load_seg_cache: the four fields together, then the hidden flags
cpu_x86_load_seg_cache(e, seg, selector, base, limit, flags) ==
    LET e1 == [e EXCEPT !.segs[seg] =
                   [selector |-> Cast(selector, 4), base |-> Cast(base, 8),
                    limit |-> Cast(limit, 4), flags |-> flags]]
        h1 == IF seg # "R_CS" THEN e1.hflags
              ELSE IF "HF_LMA_MASK" \in e1.hflags /\ "DESC_L_MASK" \in flags
                   THEN (e1.hflags \cup {"HF_CS32_MASK", "HF_SS32_MASK", "HF_CS64_MASK"})
                            \ {"HF_ADDSEG_MASK"}
                   ELSE (e1.hflags \ {"HF_CS32_MASK", "HF_CS64_MASK"})
                            \cup (IF "DESC_B_MASK" \in flags THEN {"HF_CS32_MASK"} ELSE {})
        ss32 == IF "DESC_B_MASK" \in e1.segs["R_SS"].flags THEN {"HF_SS32_MASK"} ELSE {}
        addseg ==
            IF "HF_CS64_MASK" \in h1 THEN {}
            ELSE IF ~ProtectedMode(e1) \/ "HF_CS32_MASK" \notin h1 THEN {"HF_ADDSEG_MASK"}
            ELSE IF \E g \in {"R_DS", "R_ES", "R_SS"} : e1.segs[g].base # Zero(8)
                 THEN {"HF_ADDSEG_MASK"} ELSE {}
    IN  [e1 EXCEPT !.hflags = (h1 \ {"HF_SS32_MASK", "HF_ADDSEG_MASK"}) \cup ss32 \cup addseg]

\* selector << 4 as a 32-bit value: selector * 16
ShiftLeft4(selector) ==
    LET s == Cast(selector, 4)
        n(i) == IF i = 0 THEN 0 ELSE s[i]
    IN  [i \in 1..4 |-> (s[i] % 16) * 16 + n(i - 1) \div 16]

\* the descriptor tables in guest memory: the descriptor a selector names, when
\* the tables hold a loadable one (here: the selectors below 0x100)
DescriptorLoadable(seg, selector) == selector[2] = 0
DescriptorOf(selector) ==
    [base  |-> <<0, 0, selector[1], 0, 0, 0, 0, 0>>,
     limit |-> <<255, 255, 15, 0>>,
     flags |-> {"DESC_P_MASK", "DESC_S_MASK", "DESC_W_MASK", "DESC_A_MASK", "DESC_B_MASK"}]

UC_ERR_EXCEPTION == "UC_ERR_EXCEPTION"

\* the legality pre-check: whether loading selector into seg would fault; it
\* changes nothing
uc_check_cpu_x86_load_seg(e, seg, selector) ==
    IF ~ProtectedMode(e) THEN UC_ERR_OK
    ELSE IF DescriptorLoadable(seg, selector) THEN UC_ERR_OK
    ELSE UC_ERR_EXCEPTION

\* cpu_x86_load_seg: real mode takes base = selector * 16; protected mode
\* takes the descriptor from the tables
cpu_x86_load_seg(e, seg, selector) ==
    IF ~ProtectedMode(e)
    THEN cpu_x86_load_seg_cache(e, seg, selector, ShiftLeft4(selector), <<255, 255>>,
             {"DESC_P_MASK", "DESC_S_MASK", "DESC_W_MASK", "DESC_A_MASK"})
    ELSE LET d == DescriptorOf(selector)
         IN  cpu_x86_load_seg_cache(e, seg, selector, d.base, d.limit, d.flags)

X86_NON_CS_FLAGS == {"DESC_P_MASK", "DESC_S_MASK", "DESC_W_MASK", "DESC_A_MASK"}

\* load_seg_16_helper with the limit left at zero
load_seg_16_helper_no_limit(e, seg, selector) ==
    cpu_x86_load_seg_cache(e, seg, selector, ShiftLeft4(selector), Zero(2),
                           X86_NON_CS_FLAGS)

load_seg_16_helper(e, seg, selector) ==
    cpu_x86_load_seg_cache(e, seg, selector, ShiftLeft4(selector), <<255, 255>>,
                           X86_NON_CS_FLAGS)

\* the control-register update routines: what they do to the record before the
\* accessor latches the raw value
cpu_x86_update_cr0(e, new_cr0) ==
    LET v == Cast(new_cr0, 8)
        pg_old == Bit(e.cr[0][4], 7) = 1
        pg_new == Bit(v[4], 7) = 1
        enter == ~pg_old /\ pg_new /\ "MSR_EFER_LME" \in e.efer
        leave == pg_old /\ ~pg_new /\ "MSR_EFER_LMA" \in e.efer
        efer1 == IF enter THEN e.efer \cup {"MSR_EFER_LMA"}
                 ELSE IF leave THEN e.efer \ {"MSR_EFER_LMA"} ELSE e.efer
        h0 == IF enter THEN e.hflags \cup {"HF_LMA_MASK"}
              ELSE IF leave THEN e.hflags \ {"HF_LMA_MASK"} ELSE e.hflags
        pe == Bit(v[1], 0) = 1
        h1 == (h0 \ {"HF_PE_MASK", "HF_MP_MASK", "HF_EM_MASK", "HF_TS_MASK"})
                  \cup (IF pe THEN {"HF_PE_MASK"} ELSE {"HF_ADDSEG_MASK"})
                  \cup (IF Bit(v[1], 1) = 1 THEN {"HF_MP_MASK"} ELSE {})
                  \cup (IF Bit(v[1], 2) = 1 THEN {"HF_EM_MASK"} ELSE {})
                  \cup (IF Bit(v[1], 3) = 1 THEN {"HF_TS_MASK"} ELSE {})
    IN  [e EXCEPT !.cr[0] = [v EXCEPT ![1] = OrByte(v[1], 16)],
                  !.efer = efer1,
                  !.hflags = h1]

cpu_x86_update_cr3(e, new_cr3) == [e EXCEPT !.cr[3] = Cast(new_cr3, 8)]

cpu_x86_update_cr4(e, new_cr4) ==
    LET v == Cast(new_cr4, 8)
    IN  [e EXCEPT !.cr[4] = v,
                  !.hflags = (e.hflags \ {"HF_OSFXSR_MASK", "HF_SMAP_MASK"})
                      \cup (IF Bit(v[2], 1) = 1 THEN {"HF_OSFXSR_MASK"} ELSE {})
                      \cup (IF Bit(v[3], 5) = 1 THEN {"HF_SMAP_MASK"} ELSE {})]

\* cpu_load_eflags(env, eflags, -1): eflags is an int; the condition codes go
\* to cc_src, the direction flag to df, the word itself (bit 1 always set) to
\* env->eflags
cpu_load_eflags(e, eflags) ==
    LET w == Cast(eflags, 4)
    IN  [e EXCEPT !.cc_src = <<AndByte(w[1], 213), AndByte(w[2], 8), 0, 0, 0, 0, 0, 0>>,
                  !.cc_op = "CC_OP_EFLAGS",
                  !.df = 1 - 2 * Bit(w[2], 2),
                  !.eflags = SExt([w EXCEPT ![1] = OrByte(w[1], 2)], 8)]

\* cpu_compute_eflags: env->eflags with the condition codes and the direction
\* flag put back
cpu_compute_eflags(e) ==
    [e.eflags EXCEPT ![1] = OrByte(e.eflags[1], e.cc_src[1]),
                     ![2] = OrByte(OrByte(e.eflags[2], e.cc_src[2]),
                                   IF e.df = -1 THEN 4 ELSE 0)]

cpu_set_fpuc(e, fpuc) == [e EXCEPT !.fpuc = Cast(fpuc, 2)]
cpu_set_mxcsr(e, mxcsr) == [e EXCEPT !.mxcsr = Cast(mxcsr, 4)]

\* an 80-bit value is a 64-bit mantissa followed by the 16-bit sign and exponent
cpu_get_fp80(f) == [mant |-> SubSeq(f, 1, 8), exp |-> SubSeq(f, 9, 10)]
cpu_set_fp80(mant, upper) == Cast(mant, 8) \o Cast(upper, 2)

\* helper_rdmsr: the register ECX names, into EDX:EAX
helper_rdmsr(e) ==
    LET rid == Cast(e.regs["R_ECX"], 4)
        val == IF rid \in SupportedMsr THEN e.msrs[rid] ELSE Zero(8)
    IN  [e EXCEPT !.regs["R_EAX"] = Cast(SubSeq(val, 1, 4), 8),
                  !.regs["R_EDX"] = Cast(SubSeq(val, 5, 8), 8)]

\* helper_wrmsr: EDX:EAX into the register ECX names
helper_wrmsr(e) ==
    LET rid == Cast(e.regs["R_ECX"], 4)
        val == SubSeq(e.regs["R_EAX"], 1, 4) \o SubSeq(e.regs["R_EDX"], 1, 4)
    IN  IF rid \in SupportedMsr THEN [e EXCEPT !.msrs[rid] = val] ELSE e

----------------------------------------------------------------------------
(* x86: the identifier tables of the two switch statements.                *)

X86_FP == <<"FP0", "FP1", "FP2", "FP3", "FP4", "FP5", "FP6", "FP7">>
X86_ST == <<"ST0", "ST1", "ST2", "ST3", "ST4", "ST5", "ST6", "ST7">>
X86_XMM ==
    <<"XMM0", "XMM1", "XMM2", "XMM3", "XMM4", "XMM5", "XMM6", "XMM7",
      "XMM8", "XMM9", "XMM10", "XMM11", "XMM12", "XMM13", "XMM14", "XMM15">>
X86_YMM ==
    <<"YMM0", "YMM1", "YMM2", "YMM3", "YMM4", "YMM5", "YMM6", "YMM7",
      "YMM8", "YMM9", "YMM10", "YMM11", "YMM12", "YMM13", "YMM14", "YMM15">>
X86_CR == <<"CR0", "CR1", "CR2", "CR3", "CR4">>
X86_DR == <<"DR0", "DR1", "DR2", "DR3", "DR4", "DR5", "DR6", "DR7">>

X86_FP_IDS == Range(X86_FP)
X86_ST_IDS == Range(X86_ST)
X86_YMM_IDS == Range(X86_YMM)
X86_CR_IDS == Range(X86_CR)
X86_DR_IDS == Range(X86_DR)
\* XMM0..XMM7 are cases of the first switch, XMM8..XMM15 of case UC_MODE_64
X86_XMM_LOW_IDS == Range(SubSeq(X86_XMM, 1, 8))
X86_XMM_HIGH_IDS == Range(SubSeq(X86_XMM, 9, 16))

\* the case labels of the general registers, with the regs[] slot of each
GPR32_FULL ==
    [EAX |-> "R_EAX", EBX |-> "R_EBX", ECX |-> "R_ECX", EDX |-> "R_EDX",
     ESP |-> "R_ESP", EBP |-> "R_EBP", ESI |-> "R_ESI", EDI |-> "R_EDI"]
GPR32_WORD ==
    [AX |-> "R_EAX", BX |-> "R_EBX", CX |-> "R_ECX", DX |-> "R_EDX",
     SP |-> "R_ESP", BP |-> "R_EBP", SI |-> "R_ESI", DI |-> "R_EDI"]
GPR32_BYTE_H ==
    [AH |-> "R_EAX", BH |-> "R_EBX", CH |-> "R_ECX", DH |-> "R_EDX"]
GPR32_BYTE_L ==
    [AL |-> "R_EAX", BL |-> "R_EBX", CL |-> "R_ECX", DL |-> "R_EDX"]
GPR64_FULL ==
    [RAX |-> "R_EAX", RBX |-> "R_EBX", RCX |-> "R_ECX", RDX |-> "R_EDX",
     RSP |-> "R_ESP", RBP |-> "R_EBP", RSI |-> "R_ESI", RDI |-> "R_EDI",
     R8 |-> "8", R9 |-> "9", R10 |-> "10", R11 |-> "11", R12 |-> "12",
     R13 |-> "13", R14 |-> "14", R15 |-> "15"]
GPR64_DWORD ==
    [EAX |-> "R_EAX", EBX |-> "R_EBX", ECX |-> "R_ECX", EDX |-> "R_EDX",
     ESP |-> "R_ESP", EBP |-> "R_EBP", ESI |-> "R_ESI", EDI |-> "R_EDI",
     R8D |-> "8", R9D |-> "9", R10D |-> "10", R11D |-> "11",
     R12D |-> "12", R13D |-> "13", R14D |-> "14", R15D |-> "15"]
GPR64_WORD ==
    [AX |-> "R_EAX", BX |-> "R_EBX", CX |-> "R_ECX", DX |-> "R_EDX",
     SP |-> "R_ESP", BP |-> "R_EBP", SI |-> "R_ESI", DI |-> "R_EDI",
     R8W |-> "8", R9W |-> "9", R10W |-> "10", R11W |-> "11",
     R12W |-> "12", R13W |-> "13", R14W |-> "14", R15W |-> "15"]
GPR64_BYTE_H ==
    [AH |-> "R_EAX", BH |-> "R_EBX", CH |-> "R_ECX", DH |-> "R_EDX"]
GPR64_BYTE_L ==
    [AL |-> "R_EAX", BL |-> "R_EBX", CL |-> "R_ECX", DL |-> "R_EDX",
     SPL |-> "R_ESP", BPL |-> "R_EBP", SIL |-> "R_ESI", DIL |-> "R_EDI",
     R8B |-> "8", R9B |-> "9", R10B |-> "10", R11B |-> "11",
     R12B |-> "12", R13B |-> "13", R14B |-> "14", R15B |-> "15"]

\* the segment register of each selector identifier
SEG_OF ==
    [CS |-> "R_CS", DS |-> "R_DS", SS |-> "R_SS", ES |-> "R_ES",
     FS |-> "R_FS", GS |-> "R_GS"]

\* the descriptor-table field of each identifier
DT_OF == [IDTR |-> "idt", GDTR |-> "gdt", LDTR |-> "ldt", TR |-> "tr"]

\* the index of logical stack slot n with env->fpstt left out
FPST_top_ignored(e, n) == n % 8

\* #define FPST(n): the physical index of logical stack slot n
FPST(e, n) == (e.fpstt + n) % 8

\* x86_set_pc: in UC_MODE_16 eip = address - cs * 16 with cs the selector of CS
\* as an int16_t, so cs * 16 is a signed int that the subtraction widens to 64
\* bits; in the other modes eip = address
x86_set_pc(e, m, address) ==
    IF m = 16 THEN
        LET cs == Cast(e.segs["R_CS"].selector, 2)
            product == MulBytes(SExt(cs, 4), 16, 0)
        IN  [e EXCEPT !.eip = SubSeq64(Cast(address, 8), SExt(product, 8))]
    ELSE [e EXCEPT !.eip = Cast(address, 8)]

\* x86_get_pc: in UC_MODE_16 the uint32_t selector of CS times 16, plus eip; in
\* the other modes eip
x86_get_pc(e, m) ==
    IF m = 16 THEN AddSeq(Cast(MulBytes(e.segs["R_CS"].selector, 16, 0), 8), e.eip)
    ELSE e.eip

\* x86_msr_read without the three assignments after the result is taken
x86_msr_read_no_restore(e, msr) ==
    LET e1 == helper_rdmsr([e EXCEPT !.regs["R_ECX"] = Cast(msr.rid, 8)])
        val == Cast(e1.regs["R_EAX"], 4) \o Cast(e1.regs["R_EDX"], 4)
    IN  [env |-> e1, msr |-> [msr EXCEPT !.value = val]]

x86_msr_read(e, msr) ==
    LET ecx == e.regs["R_ECX"]
        eax == e.regs["R_EAX"]
        edx == e.regs["R_EDX"]
        e1 == helper_rdmsr([e EXCEPT !.regs["R_ECX"] = Cast(msr.rid, 8)])
        val == Cast(e1.regs["R_EAX"], 4) \o Cast(e1.regs["R_EDX"], 4)
    IN  [env |-> [e1 EXCEPT !.regs["R_EAX"] = eax,
                            !.regs["R_ECX"] = ecx,
                            !.regs["R_EDX"] = edx],
         msr |-> [msr EXCEPT !.value = val]]

x86_msr_write(e, msr) ==
    LET ecx == e.regs["R_ECX"]
        eax == e.regs["R_EAX"]
        edx == e.regs["R_EDX"]
        e1 == helper_wrmsr([e EXCEPT !.regs["R_ECX"] = Cast(msr.rid, 8),
                                     !.regs["R_EAX"] = Cast(SubSeq(msr.value, 1, 4), 8),
                                     !.regs["R_EDX"] = Cast(SubSeq(msr.value, 5, 8), 8)])
    IN  [e1 EXCEPT !.regs["R_ECX"] = ecx,
                   !.regs["R_EAX"] = eax,
                   !.regs["R_EDX"] = edx]

x86_reg_reset(e, m) ==
    LET e1 == cpu_load_eflags(
                  [e EXCEPT !.regs = [r \in GprSlots |-> Zero(8)],
                            !.segs = [g \in SegSlots |-> SegZero],
                            !.cr = [i \in 0..4 |-> Zero(8)],
                            !.ldt = SegZero, !.gdt = SegZero,
                            !.tr = SegZero, !.idt = SegZero,
                            !.eip = Zero(8)],
                  Zero(4))
        e2 == [e1 EXCEPT !.cc_op = "CC_OP_EFLAGS",
                         !.fpstt = 0, !.fpus = Zero(2), !.fpuc = Zero(2),
                         !.fptags = [i \in 0..7 |-> 0],
                         !.mxcsr = Zero(4),
                         !.xmm_regs = [i \in 0..15 |-> Zero(16)],
                         !.ymmh_regs = [i \in 0..15 |-> Zero(16)],
                         !.efer = {},
                         !.msrs = [r \in SupportedMsr |-> Zero(8)]]
    IN  IF m = 16 THEN
            LET c0 == [e2 EXCEPT !.hflags = {}, !.cr[0] = Zero(8)]
                c1 == cpu_x86_load_seg_cache(c0, "R_CS", Zero(2), Zero(8), <<255, 255>>,
                          {"DESC_P_MASK", "DESC_S_MASK", "DESC_CS_MASK",
                           "DESC_R_MASK", "DESC_A_MASK"})
                c2 == load_seg_16_helper(c1, "R_DS", Zero(2))
                c3 == load_seg_16_helper(c2, "R_ES", Zero(2))
                c4 == load_seg_16_helper(c3, "R_SS", Zero(2))
                c5 == load_seg_16_helper(c4, "R_FS", Zero(2))
            IN  load_seg_16_helper(c5, "R_GS", Zero(2))
        ELSE IF m = 32 THEN
            cpu_x86_update_cr0(
                [e2 EXCEPT !.hflags = e2.hflags \cup
                               {"HF_CS32_MASK", "HF_SS32_MASK", "HF_OSFXSR_MASK"}],
                <<1>>)
        ELSE IF m = 64 THEN
            cpu_x86_update_cr0(
                [e2 EXCEPT !.hflags = (e2.hflags \cup
                               {"HF_CS32_MASK", "HF_SS32_MASK", "HF_CS64_MASK",
                                "HF_LMA_MASK", "HF_OSFXSR_MASK"}) \ {"HF_ADDSEG_MASK"},
                           !.efer = e2.efer \cup {"MSR_EFER_LMA", "MSR_EFER_LME"}],
                <<1>>)
        ELSE e2

----------------------------------------------------------------------------
(* x86: static reg_read.  A result is the return code, the caller's buffer  *)
(* afterwards and the state record afterwards.                              *)

\* sizeof(uc_x86_mmr): uint16 selector, uint64 base, uint32 limit, uint32 flags
SizeofMmr == 24
\* sizeof(uc_x86_msr): uint32 rid, uint64 value
SizeofMsr == 16

\* a return before anything was stored: CHECK_REG_TYPE failed or no case matched
RdFail(e, value) == [ret |-> UC_ERR_ARG, value |-> value, env |-> e]
\* *(type *)value = v
RdStore(e, value, v) == [ret |-> UC_ERR_OK, value |-> StoreBuf(value, v), env |-> e]

\* the two tag bits without the test exp == MAXEXPD
FPTagOf_no_maxexp(e, i) ==
    LET f == e.fpregs[i]
        exp == f[9] + 256 * (f[10] % 128)
        mantZero == SubSeq(f, 1, 8) = Zero(8)
    IN  IF e.fptags[i] # 0 THEN 3
        ELSE IF exp = 0 /\ mantZero THEN 1
        ELSE IF exp = 0 \/ f[8] < 128 THEN 2
        ELSE 0

\* the two tag bits reg_read synthesises for physical slot i
FPTagOf(e, i) ==
    LET f == e.fpregs[i]
        exp == f[9] + 256 * (f[10] % 128)
        mantZero == SubSeq(f, 1, 8) = Zero(8)
    IN  IF e.fptags[i] # 0 THEN 3
        ELSE IF exp = 0 /\ mantZero THEN 1
        ELSE IF exp = 0 \/ exp = 32767 \/ f[8] < 128 THEN 2
        ELSE 0

\* fptag after the loop for (i = 7; i >= 0; i--), as a uint16_t
FPTagWord(e) ==
    <<FPTagOf(e, 0) + 4 * FPTagOf(e, 1) + 16 * FPTagOf(e, 2) + 64 * FPTagOf(e, 3),
      FPTagOf(e, 4) + 4 * FPTagOf(e, 5) + 16 * FPTagOf(e, 6) + 64 * FPTagOf(e, 7)>>

\* case UC_X86_REG_FPSW of reg_read: fpus & ~0x3800, then the stack top at
\* bits 11..13
reg_read_fpsw(e) == <<e.fpus[1], AndByte(e.fpus[2], 199) + 8 * (e.fpstt % 8)>>

\* the first switch (regid) of reg_read: every case returns
CommonIds ==
    X86_FP_IDS \cup X86_ST_IDS \cup X86_XMM_LOW_IDS \cup X86_YMM_IDS
        \cup {"FPSW", "FPCW", "FPTAG", "FIP", "FCS", "FDP", "FDS", "FOP"}

reg_read_common(e, regid, value, size) ==
    IF regid \in X86_FP_IDS THEN
        IF ~CHECK_REG_TYPE(size, 10) THEN RdFail(e, value)
        ELSE LET r == cpu_get_fp80(e.fpregs[IndexOf(X86_FP, regid)])
             IN  RdStore(e, value, r.mant \o r.exp)
    ELSE IF regid = "FPSW" THEN
        IF ~CHECK_REG_TYPE(size, 2) THEN RdFail(e, value)
        ELSE RdStore(e, value, reg_read_fpsw(e))
    ELSE IF regid = "FPCW" THEN
        IF ~CHECK_REG_TYPE(size, 2) THEN RdFail(e, value)
        ELSE RdStore(e, value, e.fpuc)
    ELSE IF regid = "FPTAG" THEN
        IF ~CHECK_REG_TYPE(size, 2) THEN RdFail(e, value)
        ELSE RdStore(e, value, FPTagWord(e))
    ELSE IF regid \in X86_XMM_LOW_IDS THEN
        IF ~CHECK_REG_TYPE(size, 16) THEN RdFail(e, value)
        ELSE RdStore(e, value, e.xmm_regs[IndexOf(X86_XMM, regid)])
    ELSE IF regid \in X86_ST_IDS THEN
        IF ~CHECK_REG_TYPE(size, 10) THEN RdFail(e, value)
        ELSE RdStore(e, value, e.fpregs[FPST(e, IndexOf(X86_ST, regid))])
    ELSE IF regid \in X86_YMM_IDS THEN
        IF ~CHECK_REG_TYPE(size, 32) THEN RdFail(e, value)
        ELSE RdStore(e, value, e.xmm_regs[IndexOf(X86_YMM, regid)]
                                   \o e.ymmh_regs[IndexOf(X86_YMM, regid)])
    ELSE IF regid = "FIP" THEN
        IF ~CHECK_REG_TYPE(size, 8) THEN RdFail(e, value) ELSE RdStore(e, value, e.fpip)
    ELSE IF regid = "FCS" THEN
        IF ~CHECK_REG_TYPE(size, 2) THEN RdFail(e, value) ELSE RdStore(e, value, e.fpcs)
    ELSE IF regid = "FDP" THEN
        IF ~CHECK_REG_TYPE(size, 8) THEN RdFail(e, value) ELSE RdStore(e, value, e.fpdp)
    ELSE IF regid = "FDS" THEN
        IF ~CHECK_REG_TYPE(size, 2) THEN RdFail(e, value) ELSE RdStore(e, value, e.fpds)
    ELSE IF regid = "FOP" THEN
        IF ~CHECK_REG_TYPE(size, 2) THEN RdFail(e, value) ELSE RdStore(e, value, e.fpop)
    ELSE RdFail(e, value)

\* case UC_MODE_16 of reg_read: the cases that return before the fall-through
Read16Ids == {"ES", "SS", "DS", "FS", "GS", "FS_BASE"}

reg_read_16(e, regid, value, size) ==
    IF regid \in {"ES", "SS", "DS", "FS", "GS"} THEN
        IF ~CHECK_REG_TYPE(size, 2) THEN RdFail(e, value)
        ELSE RdStore(e, value, Cast(e.segs[SEG_OF[regid]].selector, 2))
    ELSE IF regid = "FS_BASE" THEN
        IF ~CHECK_REG_TYPE(size, 4) THEN RdFail(e, value)
        ELSE RdStore(e, value, Cast(e.segs["R_FS"].base, 4))
    ELSE RdFail(e, value)

\* the descriptor-table cases; w is the width of the base the mode transfers
reg_read_mmr(e, regid, value, size, w) ==
    IF ~CHECK_REG_TYPE(size, SizeofMmr) THEN RdFail(e, value)
    ELSE LET t == e[DT_OF[regid]]
         IN  IF regid \in {"IDTR", "GDTR"}
             THEN [ret |-> UC_ERR_OK, env |-> e,
                   value |-> [value EXCEPT !.limit = Cast(Cast(t.limit, 2), 4),
                                           !.base = Cast(Cast(t.base, w), 8)]]
             ELSE [ret |-> UC_ERR_OK, env |-> e,
                   value |-> [value EXCEPT !.limit = t.limit,
                                           !.base = Cast(Cast(t.base, w), 8),
                                           !.selector = Cast(t.selector, 2),
                                           !.flags = t.flags]]

reg_read_msr(e, regid, value, size) ==
    IF ~CHECK_REG_TYPE(size, SizeofMsr) THEN RdFail(e, value)
    ELSE LET r == x86_msr_read(e, value)
         IN  [ret |-> UC_ERR_OK, env |-> r.env, value |-> r.msr]

\* case UC_MODE_32 of reg_read (also reached from UC_MODE_16 by fall-through)
reg_read_32(e, regid, value, size) ==
    IF regid \in X86_CR_IDS THEN
        IF ~CHECK_REG_TYPE(size, 4) THEN RdFail(e, value)
        ELSE RdStore(e, value, Cast(e.cr[IndexOf(X86_CR, regid)], 4))
    ELSE IF regid \in X86_DR_IDS THEN
        IF ~CHECK_REG_TYPE(size, 4) THEN RdFail(e, value)
        ELSE RdStore(e, value, Cast(e.dr[IndexOf(X86_DR, regid)], 4))
    ELSE IF regid = "FLAGS" THEN
        IF ~CHECK_REG_TYPE(size, 2) THEN RdFail(e, value)
        ELSE RdStore(e, value, Cast(cpu_compute_eflags(e), 2))
    ELSE IF regid = "EFLAGS" THEN
        IF ~CHECK_REG_TYPE(size, 4) THEN RdFail(e, value)
        ELSE RdStore(e, value, Cast(cpu_compute_eflags(e), 4))
    ELSE IF regid \in DOMAIN GPR32_FULL THEN
        IF ~CHECK_REG_TYPE(size, 4) THEN RdFail(e, value)
        ELSE RdStore(e, value, Cast(e.regs[GPR32_FULL[regid]], 4))
    ELSE IF regid \in DOMAIN GPR32_WORD THEN
        IF ~CHECK_REG_TYPE(size, 2) THEN RdFail(e, value)
        ELSE RdStore(e, value, READ_WORD(e.regs[GPR32_WORD[regid]]))
    ELSE IF regid \in DOMAIN GPR32_BYTE_H THEN
        IF ~CHECK_REG_TYPE(size, 1) THEN RdFail(e, value)
        ELSE RdStore(e, value, READ_BYTE_H(e.regs[GPR32_BYTE_H[regid]]))
    ELSE IF regid \in DOMAIN GPR32_BYTE_L THEN
        IF ~CHECK_REG_TYPE(size, 1) THEN RdFail(e, value)
        ELSE RdStore(e, value, READ_BYTE_L(e.regs[GPR32_BYTE_L[regid]]))
    ELSE IF regid = "EIP" THEN
        IF ~CHECK_REG_TYPE(size, 4) THEN RdFail(e, value)
        ELSE RdStore(e, value, Cast(e.eip, 4))
    ELSE IF regid = "IP" THEN
        IF ~CHECK_REG_TYPE(size, 2) THEN RdFail(e, value)
        ELSE RdStore(e, value, READ_WORD(e.eip))
    ELSE IF regid \in DOMAIN SEG_OF THEN
        IF ~CHECK_REG_TYPE(size, 2) THEN RdFail(e, value)
        ELSE RdStore(e, value, Cast(e.segs[SEG_OF[regid]].selector, 2))
    ELSE IF regid \in DOMAIN DT_OF THEN reg_read_mmr(e, regid, value, size, 4)
    ELSE IF regid = "MSR" THEN reg_read_msr(e, regid, value, size)
    ELSE IF regid = "MXCSR" THEN
        IF ~CHECK_REG_TYPE(size, 4) THEN RdFail(e, value)
        ELSE RdStore(e, value, e.mxcsr)
    ELSE IF regid = "FS_BASE" THEN
        IF ~CHECK_REG_TYPE(size, 4) THEN RdFail(e, value)
        ELSE RdStore(e, value, Cast(e.segs["R_FS"].base, 4))
    ELSE RdFail(e, value)

\* case UC_MODE_64 of reg_read
reg_read_64(e, regid, value, size) ==
    IF regid \in X86_CR_IDS THEN
        IF ~CHECK_REG_TYPE(size, 8) THEN RdFail(e, value)
        ELSE RdStore(e, value, e.cr[IndexOf(X86_CR, regid)])
    ELSE IF regid \in X86_DR_IDS THEN
        IF ~CHECK_REG_TYPE(size, 8) THEN RdFail(e, value)
        ELSE RdStore(e, value, e.dr[IndexOf(X86_DR, regid)])
    ELSE IF regid = "FLAGS" THEN
        IF ~CHECK_REG_TYPE(size, 2) THEN RdFail(e, value)
        ELSE RdStore(e, value, Cast(cpu_compute_eflags(e), 2))
    ELSE IF regid = "EFLAGS" THEN
        IF ~CHECK_REG_TYPE(size, 4) THEN RdFail(e, value)
        ELSE RdStore(e, value, Cast(cpu_compute_eflags(e), 4))
    ELSE IF regid = "RFLAGS" THEN
        IF ~CHECK_REG_TYPE(size, 8) THEN RdFail(e, value)
        ELSE RdStore(e, value, Cast(cpu_compute_eflags(e), 8))
    ELSE IF regid \in DOMAIN GPR64_FULL THEN
        IF ~CHECK_REG_TYPE(size, 8) THEN RdFail(e, value)
        ELSE RdStore(e, value, READ_QWORD(e.regs[GPR64_FULL[regid]]))
    ELSE IF regid \in DOMAIN GPR64_DWORD THEN
        IF ~CHECK_REG_TYPE(size, 4) THEN RdFail(e, value)
        ELSE RdStore(e, value, READ_DWORD(e.regs[GPR64_DWORD[regid]]))
    ELSE IF regid \in DOMAIN GPR64_WORD THEN
        IF ~CHECK_REG_TYPE(size, 2) THEN RdFail(e, value)
        ELSE RdStore(e, value, READ_WORD(e.regs[GPR64_WORD[regid]]))
    ELSE IF regid \in DOMAIN GPR64_BYTE_H THEN
        IF ~CHECK_REG_TYPE(size, 1) THEN RdFail(e, value)
        ELSE RdStore(e, value, READ_BYTE_H(e.regs[GPR64_BYTE_H[regid]]))
    ELSE IF regid \in DOMAIN GPR64_BYTE_L THEN
        IF ~CHECK_REG_TYPE(size, 1) THEN RdFail(e, value)
        ELSE RdStore(e, value, READ_BYTE_L(e.regs[GPR64_BYTE_L[regid]]))
    ELSE IF regid = "RIP" THEN
        IF ~CHECK_REG_TYPE(size, 8) THEN RdFail(e, value)
        ELSE RdStore(e, value, e.eip)
    ELSE IF regid = "EIP" THEN
        IF ~CHECK_REG_TYPE(size, 4) THEN RdFail(e, value)
        ELSE RdStore(e, value, READ_DWORD(e.eip))
    ELSE IF regid = "IP" THEN
        IF ~CHECK_REG_TYPE(size, 2) THEN RdFail(e, value)
        ELSE RdStore(e, value, READ_WORD(e.eip))
    ELSE IF regid \in DOMAIN SEG_OF THEN
        IF ~CHECK_REG_TYPE(size, 2) THEN RdFail(e, value)
        ELSE RdStore(e, value, Cast(e.segs[SEG_OF[regid]].selector, 2))
    ELSE IF regid \in DOMAIN DT_OF THEN reg_read_mmr(e, regid, value, size, 8)
    ELSE IF regid = "MSR" THEN reg_read_msr(e, regid, value, size)
    ELSE IF regid = "MXCSR" THEN
        IF ~CHECK_REG_TYPE(size, 4) THEN RdFail(e, value)
        ELSE RdStore(e, value, e.mxcsr)
    ELSE IF regid \in X86_XMM_HIGH_IDS THEN
        IF ~CHECK_REG_TYPE(size, 16) THEN RdFail(e, value)
        ELSE RdStore(e, value, e.xmm_regs[IndexOf(X86_XMM, regid)])
    ELSE IF regid = "FS_BASE" THEN
        IF ~CHECK_REG_TYPE(size, 8) THEN RdFail(e, value)
        ELSE RdStore(e, value, e.segs["R_FS"].base)
    ELSE IF regid = "GS_BASE" THEN
        IF ~CHECK_REG_TYPE(size, 8) THEN RdFail(e, value)
        ELSE RdStore(e, value, e.segs["R_GS"].base)
    ELSE RdFail(e, value)

reg_read(e, regid, value, size, m) ==
    IF regid \in CommonIds THEN reg_read_common(e, regid, value, size)
    ELSE IF m = 16 /\ regid \in Read16Ids THEN reg_read_16(e, regid, value, size)
    ELSE IF m \in {16, 32} THEN reg_read_32(e, regid, value, size)
    ELSE IF m = 64 THEN reg_read_64(e, regid, value, size)
    ELSE RdFail(e, value)

----------------------------------------------------------------------------
(* x86: static reg_write.  A result is the return code, the state record    *)
(* afterwards and *setpc afterwards.                                        *)

\* a return before anything was stored: CHECK_REG_TYPE failed or no case matched
WrFail(e, setpc) == [ret |-> UC_ERR_ARG, env |-> e, setpc |-> setpc]
WrDone(e, setpc) == [ret |-> UC_ERR_OK, env |-> e, setpc |-> setpc]

\* the field of slot i with fptag >>= 2 left out of the loop
TagField_no_shift(w, i) == w[1] % 4

\* (fptag >> 2 * i) & 3 of a uint16_t
TagField(w, i) == (w[1 + (i \div 4)] \div (4 ^ (i % 4))) % 4

\* the XMM cases of reg_write clearing the upper half of the wider register
reg_write_xmm_clear_upper(e, regid, src) ==
    [e EXCEPT !.xmm_regs[IndexOf(X86_XMM, regid)] = Cast(src, 16),
              !.ymmh_regs[IndexOf(X86_XMM, regid)] = Zero(16)]

\* cases UC_X86_REG_XMM0..XMM7 of reg_write: the two quadwords of the
\* xmm_regs entry
reg_write_xmm(e, regid, src) ==
    [e EXCEPT !.xmm_regs[IndexOf(X86_XMM, regid)] = Cast(src, 16)]

\* case UC_X86_REG_FPSW of reg_write with the whole word stored as the status
reg_write_fpsw_unmasked(e, fpus) ==
    [e EXCEPT !.fpus = <<fpus[1], fpus[2]>>,
              !.fpstt = (fpus[2] \div 8) % 8]

\* case UC_X86_REG_FPSW of reg_write: env->fpus = fpus & ~0x3800 and
\* env->fpstt = (fpus >> 11) & 0x7
reg_write_fpsw(e, fpus) ==
    [e EXCEPT !.fpus = <<fpus[1], AndByte(fpus[2], 199)>>,
              !.fpstt = (fpus[2] \div 8) % 8]

\* the first switch (regid) of reg_write: every case returns
reg_write_common(e, regid, value, size, setpc) ==
    IF regid \in X86_FP_IDS THEN
        IF ~CHECK_REG_TYPE(size, 10) THEN WrFail(e, setpc)
        ELSE WrDone([e EXCEPT !.fpregs[IndexOf(X86_FP, regid)] =
                         cpu_set_fp80(SubSeq(value, 1, 8), SubSeq(value, 9, 10))], setpc)
    ELSE IF regid = "FPSW" THEN
        IF ~CHECK_REG_TYPE(size, 2) THEN WrFail(e, setpc)
        ELSE WrDone(reg_write_fpsw(e, Cast(value, 2)), setpc)
    ELSE IF regid = "FPCW" THEN
        IF ~CHECK_REG_TYPE(size, 2) THEN WrFail(e, setpc)
        ELSE WrDone(cpu_set_fpuc(e, Cast(value, 2)), setpc)
    ELSE IF regid = "FPTAG" THEN
        IF ~CHECK_REG_TYPE(size, 2) THEN WrFail(e, setpc)
        ELSE WrDone([e EXCEPT !.fptags =
                         [i \in 0..7 |-> IF TagField(value, i) = 3 THEN 1 ELSE 0]], setpc)
    ELSE IF regid \in X86_XMM_LOW_IDS THEN
        IF ~CHECK_REG_TYPE(size, 16) THEN WrFail(e, setpc)
        ELSE WrDone(reg_write_xmm(e, regid, value), setpc)
    ELSE IF regid \in X86_ST_IDS THEN
        IF ~CHECK_REG_TYPE(size, 10) THEN WrFail(e, setpc)
        ELSE WrDone([e EXCEPT !.fpregs[FPST(e, IndexOf(X86_ST, regid))] =
                         Cast(value, 10)], setpc)
    ELSE IF regid \in X86_YMM_IDS THEN
        IF ~CHECK_REG_TYPE(size, 32) THEN WrFail(e, setpc)
        ELSE WrDone([e EXCEPT !.xmm_regs[IndexOf(X86_YMM, regid)] = SubSeq(value, 1, 16),
                              !.ymmh_regs[IndexOf(X86_YMM, regid)] = SubSeq(value, 17, 32)],
                    setpc)
    ELSE IF regid = "FIP" THEN
        IF ~CHECK_REG_TYPE(size, 8) THEN WrFail(e, setpc)
        ELSE WrDone([e EXCEPT !.fpip = Cast(value, 8)], setpc)
    ELSE IF regid = "FCS" THEN
        IF ~CHECK_REG_TYPE(size, 2) THEN WrFail(e, setpc)
        ELSE WrDone([e EXCEPT !.fpcs = Cast(value, 2)], setpc)
    ELSE IF regid = "FDP" THEN
        IF ~CHECK_REG_TYPE(size, 8) THEN WrFail(e, setpc)
        ELSE WrDone([e EXCEPT !.fpdp = Cast(value, 8)], setpc)
    ELSE IF regid = "FDS" THEN
        IF ~CHECK_REG_TYPE(size, 2) THEN WrFail(e, setpc)
        ELSE WrDone([e EXCEPT !.fpds = Cast(value, 2)], setpc)
    ELSE IF regid = "FOP" THEN
        IF ~CHECK_REG_TYPE(size, 2) THEN WrFail(e, setpc)
        ELSE WrDone([e EXCEPT !.fpop = Cast(value, 2)], setpc)
    ELSE WrFail(e, setpc)

\* case UC_MODE_16 of reg_write: the cases that return before the fall-through
Write16Ids == {"ES", "SS", "DS", "FS", "GS"}

reg_write_16(e, regid, value, size, setpc) ==
    IF ~CHECK_REG_TYPE(size, 2) THEN WrFail(e, setpc)
    ELSE WrDone(load_seg_16_helper(e, SEG_OF[regid], Cast(value, 2)), setpc)

\* reg_write_seg with the load ahead of the pre-check
reg_write_seg_load_first(e, regid, value, size, setpc) ==
    IF ~CHECK_REG_TYPE(size, 2) THEN WrFail(e, setpc)
    ELSE LET ret == uc_check_cpu_x86_load_seg(e, SEG_OF[regid], Cast(value, 2))
             e1 == cpu_x86_load_seg(e, SEG_OF[regid], Cast(value, 2))
         IN  IF ret # UC_ERR_OK THEN [ret |-> ret, env |-> e1, setpc |-> setpc]
             ELSE WrDone(e1, setpc)

\* a segment case that asks uc_check_cpu_x86_load_seg first
reg_write_seg(e, regid, value, size, setpc) ==
    IF ~CHECK_REG_TYPE(size, 2) THEN WrFail(e, setpc)
    ELSE LET ret == uc_check_cpu_x86_load_seg(e, SEG_OF[regid], Cast(value, 2))
         IN  IF ret # UC_ERR_OK THEN [ret |-> ret, env |-> e, setpc |-> setpc]
             ELSE WrDone(cpu_x86_load_seg(e, SEG_OF[regid], Cast(value, 2)), setpc)

\* reg_write_mmr with the flags of LDTR and TR left as they were
reg_write_mmr_keep_flags(e, regid, value, size, setpc, w) ==
    IF ~CHECK_REG_TYPE(size, SizeofMmr) THEN WrFail(e, setpc)
    ELSE LET f == DT_OF[regid]
         IN  IF regid \in {"IDTR", "GDTR"}
             THEN WrDone([e EXCEPT ![f].limit = Cast(Cast(value.limit, 2), 4),
                                   ![f].base = Cast(Cast(value.base, w), 8)], setpc)
             ELSE WrDone([e EXCEPT ![f].limit = Cast(value.limit, 4),
                                   ![f].base = Cast(Cast(value.base, w), 8),
                                   ![f].selector = Cast(Cast(value.selector, 2), 4)], setpc)

\* the descriptor-table cases; w is the width of the base the mode transfers
reg_write_mmr(e, regid, value, size, setpc, w) ==
    IF ~CHECK_REG_TYPE(size, SizeofMmr) THEN WrFail(e, setpc)
    ELSE LET f == DT_OF[regid]
         IN  IF regid \in {"IDTR", "GDTR"}
             THEN WrDone([e EXCEPT ![f].limit = Cast(Cast(value.limit, 2), 4),
                                   ![f].base = Cast(Cast(value.base, w), 8)], setpc)
             ELSE WrDone([e EXCEPT ![f].limit = Cast(value.limit, 4),
                                   ![f].base = Cast(Cast(value.base, w), 8),
                                   ![f].selector = Cast(Cast(value.selector, 2), 4),
                                   ![f].flags = value.flags], setpc)

reg_write_msr(e, regid, value, size, setpc) ==
    IF ~CHECK_REG_TYPE(size, SizeofMsr) THEN WrFail(e, setpc)
    ELSE WrDone(x86_msr_write(e, value), setpc)

\* reg_write_cr with the latch as narrow as the argument of the update routine
reg_write_cr_latch32(e, regid, value, size, setpc, w) ==
    IF ~CHECK_REG_TYPE(size, w) THEN WrFail(e, setpc)
    ELSE LET arg == Cast(value, 4)
             e1 == IF regid = "CR0" THEN cpu_x86_update_cr0(e, arg)
                   ELSE IF regid = "CR4" THEN cpu_x86_update_cr4(e, arg)
                   ELSE cpu_x86_update_cr3(e, arg)
         IN  WrDone([e1 EXCEPT !.cr[IndexOf(X86_CR, regid)] = Cast(arg, 8)], setpc)

\* reg_write_cr with the slot assigned before the update routine is called
reg_write_cr_latch_first(e, regid, value, size, setpc, w) ==
    IF ~CHECK_REG_TYPE(size, w) THEN WrFail(e, setpc)
    ELSE LET arg == Cast(value, 4)
             e0 == [e EXCEPT !.cr[IndexOf(X86_CR, regid)] = Cast(Cast(value, w), 8)]
         IN  WrDone(IF regid = "CR0" THEN cpu_x86_update_cr0(e0, arg)
                    ELSE IF regid = "CR4" THEN cpu_x86_update_cr4(e0, arg)
                    ELSE cpu_x86_update_cr3(e0, arg), setpc)

\* the control-register cases: the update routine, then write_cr / write_cr64;
\* w is the width CHECK_REG_TYPE asks and the latch stores
reg_write_cr(e, regid, value, size, setpc, w) ==
    IF ~CHECK_REG_TYPE(size, w) THEN WrFail(e, setpc)
    ELSE LET arg == Cast(value, 4)
             e1 == IF regid = "CR0" THEN cpu_x86_update_cr0(e, arg)
                   ELSE IF regid = "CR4" THEN cpu_x86_update_cr4(e, arg)
                   ELSE cpu_x86_update_cr3(e, arg)
         IN  WrDone([e1 EXCEPT !.cr[IndexOf(X86_CR, regid)] = Cast(Cast(value, w), 8)],
                    setpc)

\* the general-register cases of case UC_MODE_32 of reg_write
Gpr32Ids ==
    DOMAIN GPR32_FULL \cup DOMAIN GPR32_WORD
        \cup DOMAIN GPR32_BYTE_H \cup DOMAIN GPR32_BYTE_L

reg_write_32_gpr(e, regid, value, size, setpc) ==
    IF regid \in DOMAIN GPR32_FULL THEN
        IF ~CHECK_REG_TYPE(size, 4) THEN WrFail(e, setpc)
        ELSE WrDone([e EXCEPT !.regs[GPR32_FULL[regid]] = Cast(Cast(value, 4), 8)], setpc)
    ELSE IF regid \in DOMAIN GPR32_WORD THEN
        IF ~CHECK_REG_TYPE(size, 2) THEN WrFail(e, setpc)
        ELSE WrDone([e EXCEPT !.regs[GPR32_WORD[regid]] = WRITE_WORD(@, Cast(value, 2))],
                    setpc)
    ELSE IF regid \in DOMAIN GPR32_BYTE_H THEN
        IF ~CHECK_REG_TYPE(size, 1) THEN WrFail(e, setpc)
        ELSE WrDone([e EXCEPT !.regs[GPR32_BYTE_H[regid]] = WRITE_BYTE_H(@, Cast(value, 1))],
                    setpc)
    ELSE IF regid \in DOMAIN GPR32_BYTE_L THEN
        IF ~CHECK_REG_TYPE(size, 1) THEN WrFail(e, setpc)
        ELSE WrDone([e EXCEPT !.regs[GPR32_BYTE_L[regid]] = WRITE_BYTE_L(@, Cast(value, 1))],
                    setpc)
    ELSE WrFail(e, setpc)

\* case UC_MODE_32 of reg_write (also reached from UC_MODE_16 by fall-through)
reg_write_32(e, regid, value, size, setpc) ==
    IF regid \in X86_CR_IDS THEN reg_write_cr(e, regid, value, size, setpc, 4)
    ELSE IF regid \in X86_DR_IDS THEN
        IF ~CHECK_REG_TYPE(size, 4) THEN WrFail(e, setpc)
        ELSE WrDone([e EXCEPT !.dr[IndexOf(X86_DR, regid)] = Cast(Cast(value, 4), 8)],
                    setpc)
    ELSE IF regid = "FLAGS" THEN
        IF ~CHECK_REG_TYPE(size, 2) THEN WrFail(e, setpc)
        ELSE WrDone(cpu_load_eflags(e, Cast(Cast(value, 2), 4)), setpc)
    ELSE IF regid = "EFLAGS" THEN
        IF ~CHECK_REG_TYPE(size, 4) THEN WrFail(e, setpc)
        ELSE WrDone(cpu_load_eflags(e, Cast(value, 4)), setpc)
    ELSE IF regid \in Gpr32Ids THEN reg_write_32_gpr(e, regid, value, size, setpc)
    ELSE IF regid = "EIP" THEN
        IF ~CHECK_REG_TYPE(size, 4) THEN WrFail(e, setpc)
        ELSE WrDone([e EXCEPT !.eip = Cast(Cast(value, 4), 8)], 1)
    ELSE IF regid = "IP" THEN
        IF ~CHECK_REG_TYPE(size, 2) THEN WrFail(e, setpc)
        ELSE WrDone([e EXCEPT !.eip = Cast(Cast(value, 2), 8)], 1)
    ELSE IF regid \in DOMAIN SEG_OF THEN reg_write_seg(e, regid, value, size, setpc)
    ELSE IF regid \in DOMAIN DT_OF THEN reg_write_mmr(e, regid, value, size, setpc, 4)
    ELSE IF regid = "MSR" THEN reg_write_msr(e, regid, value, size, setpc)
    ELSE IF regid = "MXCSR" THEN
        IF ~CHECK_REG_TYPE(size, 4) THEN WrFail(e, setpc)
        ELSE WrDone(cpu_set_mxcsr(e, Cast(value, 4)), setpc)
    ELSE WrFail(e, setpc)

\* the general-register cases of case UC_MODE_64 of reg_write
Gpr64Ids ==
    DOMAIN GPR64_FULL \cup DOMAIN GPR64_DWORD \cup DOMAIN GPR64_WORD
        \cup DOMAIN GPR64_BYTE_H \cup DOMAIN GPR64_BYTE_L

\* reg_write_64_gpr with the dword views stored the way the full registers are:
\* the value widened to the slot
reg_write_64_gpr_widening(e, regid, value, size, setpc) ==
    IF regid \in DOMAIN GPR64_FULL THEN
        IF ~CHECK_REG_TYPE(size, 8) THEN WrFail(e, setpc)
        ELSE WrDone([e EXCEPT !.regs[GPR64_FULL[regid]] = Cast(value, 8)], setpc)
    ELSE IF regid \in DOMAIN GPR64_DWORD THEN
        IF ~CHECK_REG_TYPE(size, 4) THEN WrFail(e, setpc)
        ELSE WrDone([e EXCEPT !.regs[GPR64_DWORD[regid]] = Cast(Cast(value, 4), 8)], setpc)
    ELSE IF regid \in DOMAIN GPR64_WORD THEN
        IF ~CHECK_REG_TYPE(size, 2) THEN WrFail(e, setpc)
        ELSE WrDone([e EXCEPT !.regs[GPR64_WORD[regid]] = WRITE_WORD(@, Cast(value, 2))],
                    setpc)
    ELSE IF regid \in DOMAIN GPR64_BYTE_H THEN
        IF ~CHECK_REG_TYPE(size, 1) THEN WrFail(e, setpc)
        ELSE WrDone([e EXCEPT !.regs[GPR64_BYTE_H[regid]] = WRITE_BYTE_H(@, Cast(value, 1))],
                    setpc)
    ELSE IF regid \in DOMAIN GPR64_BYTE_L THEN
        IF ~CHECK_REG_TYPE(size, 1) THEN WrFail(e, setpc)
        ELSE WrDone([e EXCEPT !.regs[GPR64_BYTE_L[regid]] = WRITE_BYTE_L(@, Cast(value, 1))],
                    setpc)
    ELSE WrFail(e, setpc)

reg_write_64_gpr(e, regid, value, size, setpc) ==
    IF regid \in DOMAIN GPR64_FULL THEN
        IF ~CHECK_REG_TYPE(size, 8) THEN WrFail(e, setpc)
        ELSE WrDone([e EXCEPT !.regs[GPR64_FULL[regid]] = Cast(value, 8)], setpc)
    ELSE IF regid \in DOMAIN GPR64_DWORD THEN
        IF ~CHECK_REG_TYPE(size, 4) THEN WrFail(e, setpc)
        ELSE WrDone([e EXCEPT !.regs[GPR64_DWORD[regid]] = WRITE_DWORD(@, Cast(value, 4))],
                    setpc)
    ELSE IF regid \in DOMAIN GPR64_WORD THEN
        IF ~CHECK_REG_TYPE(size, 2) THEN WrFail(e, setpc)
        ELSE WrDone([e EXCEPT !.regs[GPR64_WORD[regid]] = WRITE_WORD(@, Cast(value, 2))],
                    setpc)
    ELSE IF regid \in DOMAIN GPR64_BYTE_H THEN
        IF ~CHECK_REG_TYPE(size, 1) THEN WrFail(e, setpc)
        ELSE WrDone([e EXCEPT !.regs[GPR64_BYTE_H[regid]] = WRITE_BYTE_H(@, Cast(value, 1))],
                    setpc)
    ELSE IF regid \in DOMAIN GPR64_BYTE_L THEN
        IF ~CHECK_REG_TYPE(size, 1) THEN WrFail(e, setpc)
        ELSE WrDone([e EXCEPT !.regs[GPR64_BYTE_L[regid]] = WRITE_BYTE_L(@, Cast(value, 1))],
                    setpc)
    ELSE WrFail(e, setpc)

\* case UC_MODE_64 of reg_write
reg_write_64(e, regid, value, size, setpc) ==
    IF regid \in X86_CR_IDS THEN reg_write_cr(e, regid, value, size, setpc, 8)
    ELSE IF regid \in X86_DR_IDS THEN
        IF ~CHECK_REG_TYPE(size, 8) THEN WrFail(e, setpc)
        ELSE WrDone([e EXCEPT !.dr[IndexOf(X86_DR, regid)] = Cast(value, 8)], setpc)
    ELSE IF regid = "FLAGS" THEN
        IF ~CHECK_REG_TYPE(size, 2) THEN WrFail(e, setpc)
        ELSE WrDone(cpu_load_eflags(e, Cast(Cast(value, 2), 4)), setpc)
    ELSE IF regid = "EFLAGS" THEN
        IF ~CHECK_REG_TYPE(size, 4) THEN WrFail(e, setpc)
        ELSE WrDone(cpu_load_eflags(e, Cast(value, 4)), setpc)
    ELSE IF regid = "RFLAGS" THEN
        IF ~CHECK_REG_TYPE(size, 8) THEN WrFail(e, setpc)
        ELSE WrDone(cpu_load_eflags(e, Cast(Cast(value, 8), 4)), setpc)
    ELSE IF regid \in Gpr64Ids THEN reg_write_64_gpr(e, regid, value, size, setpc)
    ELSE IF regid = "RIP" THEN
        IF ~CHECK_REG_TYPE(size, 8) THEN WrFail(e, setpc)
        ELSE WrDone([e EXCEPT !.eip = Cast(value, 8)], 1)
    ELSE IF regid = "EIP" THEN
        IF ~CHECK_REG_TYPE(size, 4) THEN WrFail(e, setpc)
        ELSE WrDone([e EXCEPT !.eip = Cast(Cast(value, 4), 8)], 1)
    ELSE IF regid = "IP" THEN
        IF ~CHECK_REG_TYPE(size, 2) THEN WrFail(e, setpc)
        ELSE WrDone([e EXCEPT !.eip = WRITE_WORD(@, Cast(value, 2))], 1)
    ELSE IF regid \in {"CS", "DS", "SS", "ES"} THEN
        IF ~CHECK_REG_TYPE(size, 2) THEN WrFail(e, setpc)
        ELSE WrDone([e EXCEPT !.segs[SEG_OF[regid]].selector = Cast(Cast(value, 2), 4)],
                    setpc)
    ELSE IF regid \in {"FS", "GS"} THEN reg_write_seg(e, regid, value, size, setpc)
    ELSE IF regid \in DOMAIN DT_OF THEN reg_write_mmr(e, regid, value, size, setpc, 8)
    ELSE IF regid = "MSR" THEN reg_write_msr(e, regid, value, size, setpc)
    ELSE IF regid = "MXCSR" THEN
        IF ~CHECK_REG_TYPE(size, 4) THEN WrFail(e, setpc)
        ELSE WrDone(cpu_set_mxcsr(e, Cast(value, 4)), setpc)
    ELSE IF regid \in X86_XMM_HIGH_IDS THEN
        IF ~CHECK_REG_TYPE(size, 16) THEN WrFail(e, setpc)
        ELSE WrDone([e EXCEPT !.xmm_regs[IndexOf(X86_XMM, regid)] = Cast(value, 16)],
                    setpc)
    ELSE IF regid = "FS_BASE" THEN
        IF ~CHECK_REG_TYPE(size, 8) THEN WrFail(e, setpc)
        ELSE WrDone([e EXCEPT !.segs["R_FS"].base = Cast(value, 8)], setpc)
    ELSE IF regid = "GS_BASE" THEN
        IF ~CHECK_REG_TYPE(size, 8) THEN WrFail(e, setpc)
        ELSE WrDone([e EXCEPT !.segs["R_GS"].base = Cast(value, 8)], setpc)
    ELSE WrFail(e, setpc)

\* reg_write without the break that ends case UC_MODE_32: an identifier the
\* 32-bit switch leaves unwritten goes on into case UC_MODE_64
reg_write_no_break(e, regid, value, size, m, setpc) ==
    IF regid \in CommonIds THEN reg_write_common(e, regid, value, size, setpc)
    ELSE IF m = 16 /\ regid \in Write16Ids THEN reg_write_16(e, regid, value, size, setpc)
    ELSE IF m \in {16, 32} /\ reg_write_32(e, regid, value, size, setpc).ret = UC_ERR_OK
    THEN reg_write_32(e, regid, value, size, setpc)
    ELSE IF m \in {16, 32, 64} THEN reg_write_64(e, regid, value, size, setpc)
    ELSE WrFail(e, setpc)

reg_write(e, regid, value, size, m, setpc) ==
    IF regid \in CommonIds THEN reg_write_common(e, regid, value, size, setpc)
    ELSE IF m = 16 /\ regid \in Write16Ids THEN reg_write_16(e, regid, value, size, setpc)
    ELSE IF m \in {16, 32} THEN reg_write_32(e, regid, value, size, setpc)
    ELSE IF m = 64 THEN reg_write_64(e, regid, value, size, setpc)
    ELSE WrFail(e, setpc)

\* reg_read_batch, from element i on: the return code, the buffers and the
\* state record afterwards
RECURSIVE reg_read_batch(_, _, _, _, _, _)
RECURSIVE reg_read_batch_next(_, _, _, _, _, _)

\* after element i returned r: if (err) return err; else the next element
reg_read_batch_next(r, regs, vals, sizes, m, i) ==
    IF r.ret # UC_ERR_OK
    THEN [ret |-> r.ret, out |-> [vals EXCEPT ![i] = r.value], env |-> r.env]
    ELSE reg_read_batch(r.env, regs, [vals EXCEPT ![i] = r.value], sizes, m, i + 1)

reg_read_batch(e, regs, vals, sizes, m, i) ==
    IF i > Len(regs) THEN [ret |-> UC_ERR_OK, out |-> vals, env |-> e]
    ELSE reg_read_batch_next(reg_read(e, regs[i], vals[i], SizeAt(sizes, i), m),
                             regs, vals, sizes, m, i)

\* reg_write_batch, from element i on
RECURSIVE reg_write_batch(_, _, _, _, _, _, _)
RECURSIVE reg_write_batch_next(_, _, _, _, _, _)

\* reg_write_batch going on to the next element whatever element i returned
reg_write_batch_next_unchecked(r, regs, vals, sizes, m, i) ==
    reg_write_batch(r.env, regs, vals, sizes, m, r.setpc, i + 1)

\* after element i returned r: if (err) return err; else the next element
reg_write_batch_next(r, regs, vals, sizes, m, i) ==
    IF r.ret # UC_ERR_OK THEN r
    ELSE reg_write_batch(r.env, regs, vals, sizes, m, r.setpc, i + 1)

reg_write_batch(e, regs, vals, sizes, m, setpc, i) ==
    IF i > Len(regs) THEN [ret |-> UC_ERR_OK, env |-> e, setpc |-> setpc]
    ELSE reg_write_batch_next(reg_write(e, regs[i], vals[i], SizeAt(sizes, i), m, setpc),
                              regs, vals, sizes, m, i)

\* x86_reg_write_finish with the request raised after every successful batch
x86_reg_write_finish_always(r, quit, n) ==
    IF r.ret # UC_ERR_OK
    THEN [ret |-> r.ret, env |-> r.env, quit |-> quit, ev |-> <<>>]
    ELSE [ret |-> UC_ERR_OK, env |-> r.env, quit |-> TRUE,
          ev |-> <<RaiseEvent(n, r.env.eip)>>]

\* x86_reg_write after reg_write_batch returned r for a list of n elements:
\* the error, or one request when *setpc was set
x86_reg_write_finish(r, quit, n) ==
    IF r.ret # UC_ERR_OK
    THEN [ret |-> r.ret, env |-> r.env, quit |-> quit, ev |-> <<>>]
    ELSE IF r.setpc # 0
    THEN [ret |-> UC_ERR_OK, env |-> r.env, quit |-> TRUE,
          ev |-> <<RaiseEvent(n, r.env.eip)>>]
    ELSE [ret |-> UC_ERR_OK, env |-> r.env, quit |-> quit, ev |-> <<>>]

\* x86_reg_write with the request raised ahead of the batch, when the list
\* names a program counter
x86_reg_write_result_request_first(e, quit, regs, vals, sizes, m) ==
    LET r == reg_write_batch(e, regs, vals, sizes, m, 0, 1)
        pcs == {k \in 1..Len(regs) : regs[k] \in {"IP", "EIP", "RIP"}}
    IN  IF pcs = {}
        THEN [ret |-> r.ret, env |-> r.env, quit |-> quit, ev |-> <<>>]
        ELSE [ret |-> r.ret, env |-> r.env, quit |-> TRUE,
              ev |-> <<RaiseEvent(Len(regs), e.eip)>>]

\* x86_reg_write: int setpc = 0, the batch, then the request
x86_reg_write_result(e, quit, regs, vals, sizes, m) ==
    x86_reg_write_finish(reg_write_batch(e, regs, vals, sizes, m, 0, 1), quit, Len(regs))

\* x86_context_reg_write: the batch on the snapshot's record with its own setpc
x86_context_reg_write_result(c, regs, vals, sizes, m) ==
    reg_write_batch(c, regs, vals, sizes, m, 0, 1)

----------------------------------------------------------------------------
(* The host program: which calls it makes.  One behaviour works with one   *)
(* group of identifiers that share storage, through one or both handles.   *)

Max(a, b) == IF a >= b THEN a ELSE b

\* the k-th value a caller writes into a register of w bytes
Pattern(k, w) == [i \in 1..w |-> 17 * k + 5 * w + i]
\* what a caller's output buffer holds before a read
Poison(w) == [i \in 1..w |-> 255]

\* the widths the register families are documented with; 0 when the mode has no
\* such register
X86Width(m, id) ==
    IF id \in X86_FP_IDS \cup X86_ST_IDS THEN 10
    ELSE IF id \in {"FPSW", "FPCW", "FPTAG", "FCS", "FDS", "FOP"} THEN 2
    ELSE IF id \in {"FIP", "FDP"} THEN 8
    ELSE IF id \in X86_YMM_IDS THEN 32
    ELSE IF id \in X86_XMM_LOW_IDS THEN 16
    ELSE IF id \in X86_XMM_HIGH_IDS THEN (IF m = 64 THEN 16 ELSE 0)
    ELSE IF id \in X86_CR_IDS \cup X86_DR_IDS THEN (IF m = 64 THEN 8 ELSE 4)
    ELSE IF id \in DOMAIN SEG_OF THEN 2
    ELSE IF id \in DOMAIN DT_OF THEN SizeofMmr
    ELSE IF id = "MSR" THEN SizeofMsr
    ELSE IF id = "MXCSR" THEN 4
    ELSE IF id \in {"FLAGS", "IP"} THEN 2
    ELSE IF id \in {"EFLAGS", "EIP"} THEN 4
    ELSE IF id \in {"RFLAGS", "RIP", "GS_BASE"} THEN (IF m = 64 THEN 8 ELSE 0)
    ELSE IF id = "FS_BASE" THEN (IF m = 64 THEN 8 ELSE 4)
    ELSE IF m = 64 THEN
        IF id \in DOMAIN GPR64_FULL THEN 8
        ELSE IF id \in DOMAIN GPR64_DWORD THEN 4
        ELSE IF id \in DOMAIN GPR64_WORD THEN 2
        ELSE IF id \in DOMAIN GPR64_BYTE_H \cup DOMAIN GPR64_BYTE_L THEN 1
        ELSE 0
    ELSE IF id \in DOMAIN GPR32_FULL THEN 4
    ELSE IF id \in DOMAIN GPR32_WORD THEN 2
    ELSE IF id \in DOMAIN GPR32_BYTE_H \cup DOMAIN GPR32_BYTE_L THEN 1
    ELSE 0

SparcIds == Range(SPARC_G) \cup Range(SPARC_O) \cup Range(SPARC_L) \cup Range(SPARC_I) \cup {"PC"}

SemanticWidth(a, m, id) ==
    IF a = "sparc" THEN (IF id \in SparcIds THEN 4 ELSE 0) ELSE X86Width(m, id)

\* the program-counter identifiers
PcIds(a) == IF a = "sparc" THEN {"PC"} ELSE {"IP", "EIP", "RIP"}

\* the regs[] slot of a general-register identifier
SlotOf(m, id) ==
    IF m = 64 THEN
        IF id \in DOMAIN GPR64_FULL THEN GPR64_FULL[id]
        ELSE IF id \in DOMAIN GPR64_DWORD THEN GPR64_DWORD[id]
        ELSE IF id \in DOMAIN GPR64_WORD THEN GPR64_WORD[id]
        ELSE IF id \in DOMAIN GPR64_BYTE_H THEN GPR64_BYTE_H[id]
        ELSE GPR64_BYTE_L[id]
    ELSE IF id \in DOMAIN GPR32_FULL THEN GPR32_FULL[id]
    ELSE IF id \in DOMAIN GPR32_WORD THEN GPR32_WORD[id]
    ELSE IF id \in DOMAIN GPR32_BYTE_H THEN GPR32_BYTE_H[id]
    ELSE GPR32_BYTE_L[id]

GprIds(m) == IF m = 64 THEN Gpr64Ids ELSE Gpr32Ids

\* every identifier a caller may pass on x86: those some mode knows and one
\* that none does
X86Ids ==
    CommonIds \cup Gpr64Ids \cup X86_CR_IDS \cup X86_DR_IDS \cup (X86_XMM_LOW_IDS \cup X86_XMM_HIGH_IDS)
        \cup DOMAIN SEG_OF \cup DOMAIN DT_OF
        \cup {"FLAGS", "EFLAGS", "RFLAGS", "IP", "EIP", "RIP", "MSR", "MXCSR",
              "FS_BASE", "GS_BASE", "INVALID"}

\* the widest general-register identifiers of a mode
FullIds(m) == IF m = 64 THEN DOMAIN GPR64_FULL ELSE DOMAIN GPR32_FULL

\* the groups of identifiers that share storage or influence one another
X86Groups(m) ==
    UNION {{{f, n} : n \in {x \in GprIds(m) \ FullIds(m) : SlotOf(m, x) = SlotOf(m, f)}} :
               f \in FullIds(m)}
        \cup {{"CR0", g} : g \in DOMAIN SEG_OF}
        \cup {{"FS", "FS_BASE"}, {"GS", "GS_BASE"}}
        \cup {{"FLAGS", "EFLAGS", "RFLAGS"}, {"IP", "EIP", "RIP"}}
        \cup {{X86_FP[i], X86_ST[i]} : i \in 1..8}
        \cup {{"FP0", "FP3", "ST0", "FPSW"}, {"FPTAG", "FP0"}}
        \cup {{X86_XMM[i], X86_YMM[i]} : i \in 1..16}

\* a general register, a program counter and an unknown identifier together, for
\* lists of several elements
BatchIds(a, m) ==
    IF a = "sparc" THEN {"G1", "PC", "INVALID"}
    ELSE IF m = 16 THEN {"AX", "IP", "INVALID"}
    ELSE IF m = 32 THEN {"EAX", "EIP", "INVALID"}
    ELSE {"RAX", "RIP", "INVALID"}

Archs == {"x86", "sparc"}
ModesOf(a) == IF a = "sparc" THEN {32} ELSE {16, 32, 64}
IdsOf(a) == IF a = "sparc" THEN SparcIds \cup {"INVALID"} ELSE X86Ids

\* no identifier has values of its own: every one is written with patterns
NoSamples == [id \in {} |-> {}]

\* a piece of work: the engine, the identifiers, the handles, the longest list
\* written and the longest read, and how far a declared size may be from the
\* width (none: sizes is NULL)
Work(a, m, ids, handles, batch, rbatch, deltas) ==
    [arch |-> a, mode |-> m, ids |-> ids, handles |-> handles, batch |-> batch,
     rbatch |-> rbatch, deltas |-> deltas, samples |-> NoSamples]

\* the piece of work w with the values of f written to the identifiers f names
WithSamples(w, f) == [w EXCEPT !.samples = f]

SizeDeltas == (0 - MaxSizeDelta)..MaxSizeDelta

\* every identifier alone on the live engine, with every declared size; the
\* snapshot for the identifiers of BatchIds
SingleWork ==
    UNION {UNION {{Work(a, m, {id}, {"live"}, 1, 1, SizeDeltas) : id \in IdsOf(a)}
                      \cup {Work(a, m, {id}, {"ctx"}, 1, 1, SizeDeltas) : id \in BatchIds(a, m)} :
                  m \in ModesOf(a)} : a \in Archs}

\* the groups, with matching sizes
GroupWork ==
    UNION {{Work("x86", m, g, {"live"}, 1, 1, {0}) : g \in X86Groups(m)}
               \cup {Work("x86", m, {"CR0", "DS"}, {"ctx"}, 1, 1, {0})} : m \in ModesOf("x86")}
        \cup {Work("sparc", 32, {"G1", "PC"}, {h}, 1, 1, {0}) : h \in {"live", "ctx"}}

\* lists of up to MaxBatch elements written without declared sizes (through
\* the snapshot in 32-bit mode), such lists read, single calls through both
\* handles in turn,
\* and lists of two identifiers written with declared sizes, right or too large
BatchWork ==
    UNION {UNION {{Work(a, m, BatchIds(a, m), {"live"}, MaxBatch, 1, {}),
                   Work(a, m, BatchIds(a, m) \ {"INVALID"}, {"live", "ctx"}, 1, 1, {})} :
                  m \in ModesOf(a)} : a \in Archs}
        \cup {Work(a, 32, BatchIds(a, 32), {"ctx"}, MaxBatch, 1, {}) : a \in Archs}
        \cup {Work(a, 32, BatchIds(a, 32), {"live"}, 1, MaxBatch, {}) : a \in Archs}
        \cup {Work(a, 32, BatchIds(a, 32) \ {"INVALID"}, {"live"}, MaxBatch, 1,
                   {0, MaxSizeDelta}) : a \in Archs}

\* 80-bit values of every class of the tag word: zero of both signs, a
\* normal number, the maximum exponent, a denormal and an unnormal
Fp80Samples ==
    {<<0, 0, 0, 0, 0, 0, 0, 0, 0, 0>>,
     <<0, 0, 0, 0, 0, 0, 0, 0, 0, 128>>,
     <<0, 0, 0, 0, 0, 0, 0, 128, 255, 63>>,
     <<0, 0, 0, 0, 0, 0, 0, 128, 255, 127>>,
     <<0, 0, 0, 0, 0, 0, 0, 0, 255, 255>>,
     <<1, 0, 0, 0, 0, 0, 0, 0, 0, 0>>,
     <<1, 0, 0, 0, 0, 0, 0, 0, 255, 63>>}

\* tag words with every field value at low and at high slots
TagSamples ==
    {<<0, 0>>, <<255, 255>>, <<28, 29>>, <<170, 170>>, <<85, 85>>, <<195, 60>>}

\* status words with every stack top, the other bits all clear or all set
StatusSamples == {<<165 * (c \div 199), 8 * t + c>> : t \in 0..7, c \in {0, 199}}

\* status words that only place the stack top
TopSamples == {<<0, 8 * t>> : t \in {0, 3, 7}}

\* the work on the register families whose behaviour hangs on the values: the
\* x87 tag word over one data register, the status word, the stack view over
\* a placed top, the MSR window next to the registers its helpers use
SampleWork ==
    {WithSamples(Work("x86", 32, {"FPTAG", fp}, {"live"}, 1, 1, {}),
                 [id \in {"FPTAG", fp} |->
                     IF id = "FPTAG" THEN TagSamples ELSE Fp80Samples]) :
         fp \in {"FP0", "FP5"}}
        \cup {WithSamples(Work("x86", 16, {"FPSW"}, {h}, 1, 1, {}),
                          [id \in {"FPSW"} |-> StatusSamples]) : h \in {"live", "ctx"}}
        \cup {WithSamples(Work("x86", 64, {"FPSW", st}, {"live"}, 1, 1, {}),
                          [id \in {"FPSW"} |-> TopSamples]) : st \in {"ST0", "ST6"}}
        \cup {Work("x86", 32, {"MSR", "EAX", "ECX", "EDX"}, {h}, 1, 1, {}) :
                  h \in {"live", "ctx"}}
        \cup {Work("x86", 64, {"MSR", "RAX", "RCX", "RDX"}, {"live"}, 1, 1, {})}
        \cup {Work("x86", 32, {"XMM1", "YMM1", "YMM2"}, {"live"}, 1, 1, {}),
              Work("x86", 16, {"XMM7", "YMM7", "YMM8"}, {"ctx"}, 1, 1, {})}
        \cup {Work("sparc", 32, {"G1", "PC"}, {"live", "ctx"}, 1, 1, {})}

\* code-segment selectors of both signs as an int16_t
SelectorSamples == {<<0, 0>>, <<52, 18>>, <<0, 128>>, <<255, 255>>}

\* the work around the callbacks of the engine: register families dirtied
\* before a reset, the code segment and the instruction pointer around set_pc
CallbackWork ==
    UNION {{Work("x86", m, {"EAX", "FP0", "DR0"}, {"live"}, 1, 1, {}),
            Work("x86", m, {"CR0", "CR4", "XMM0"}, {"live"}, 1, 1, {}),
            Work("x86", m, {"FPSW", "FPTAG", "GDTR"}, {"live"}, 1, 1, {}),
            Work("x86", m, {"DS", "EFLAGS", "EIP"}, {"live"}, 1, 1, {})} :
               m \in {16, 32, 64}}
        \cup {WithSamples(Work("x86", 16, {"CS", "IP"}, {"live"}, 1, 1, {}),
                          [id \in {"CS"} |-> SelectorSamples])}
        \cup {Work("x86", 32, {"EAX"}, {"ctx"}, 1, 1, {}),
              Work("sparc", 32, {"G1", "O1", "PC"}, {"live"}, 1, 1, {}),
              Work("sparc", 32, {"G1"}, {"ctx"}, 1, 1, {})}

\* every sequence that takes its i-th element from the i-th set
RECURSIVE SeqProduct(_)
SeqProduct(sets) ==
    IF sets = <<>> THEN {<<>>}
    ELSE {<<x>> \o t : x \in Head(sets), t \in SeqProduct(Tail(sets))}

\* the identifier lists a piece of work writes and reads
RegListsUpTo(ids, n) == UNION {[1..k -> ids] : k \in 1..n}
WriteRegLists(w) == RegListsUpTo(w.ids, w.batch)
ReadRegLists(w) == RegListsUpTo(w.ids, w.rbatch)

\* the width a caller takes an identifier to have when no mode documents one
BaseWidth(a, m, id) == IF SemanticWidth(a, m, id) = 0 THEN 4 ELSE SemanticWidth(a, m, id)

\* the sizes argument: NULL, or one declared size for each element, at most
\* one of them off the width
SizeLists(w, regs) ==
    {<<>>} \cup {s \in {[i \in 1..Len(regs) |->
                              BaseWidth(w.arch, w.mode, regs[i]) + (IF i = j THEN d ELSE 0)] :
                          j \in 1..Len(regs), d \in w.deltas} :
                    \A i \in 1..Len(regs) : s[i] \in Nat}

\* the bytes the caller's i-th buffer holds: never fewer than the register has
Capacity(w, regs, sizes, i) ==
    IF sizes = <<>> THEN BaseWidth(w.arch, w.mode, regs[i])
    ELSE Max(sizes[i], BaseWidth(w.arch, w.mode, regs[i]))

\* uc_x86_mmr and uc_x86_msr values
MmrValue(k) ==
    [selector |-> Pattern(k, 2), base |-> Pattern(k, 8), limit |-> Pattern(k, 4),
     flags |-> {"DESC_P_MASK", "DESC_S_MASK"}]
PoisonMmr ==
    [selector |-> Poison(2), base |-> Poison(8), limit |-> Poison(4), flags |-> {"POISON"}]
MsrIndexes == SupportedMsr \cup {<<1, 0, 0, 0>>}

\* a selector the descriptor tables allow, as wide as the buffer
LegalSelector(cap) == <<8, 0>> \o [i \in 1..(cap - 2) |-> 0]

WriteValues(w, id, cap) ==
    IF id \in DOMAIN w.samples THEN w.samples[id]
    ELSE IF w.arch = "x86" /\ id \in DOMAIN DT_OF THEN {MmrValue(k) : k \in 1..NumPatterns}
    ELSE IF w.arch = "x86" /\ id = "MSR"
    THEN {[rid |-> r, value |-> Pattern(k, 8)] : r \in MsrIndexes, k \in 1..NumPatterns}
    ELSE IF w.arch = "x86" /\ id \in DOMAIN SEG_OF
    THEN {LegalSelector(cap)} \cup {Pattern(k, cap) : k \in 1..NumPatterns}
    ELSE {Pattern(k, cap) : k \in 1..NumPatterns}

ReadBuffers(w, id, cap) ==
    IF w.arch = "x86" /\ id \in DOMAIN DT_OF THEN {PoisonMmr}
    ELSE IF w.arch = "x86" /\ id = "MSR"
    THEN {[rid |-> r, value |-> Poison(8)] : r \in MsrIndexes}
    ELSE {Poison(cap)}

\* the values of a call: every value for a single element; in a longer list
\* the value goes by the position
WriteValueLists(w, regs, sizes) ==
    IF Len(regs) = 1
    THEN {<<v>> : v \in WriteValues(w, regs[1], Capacity(w, regs, sizes, 1))}
    ELSE {[i \in 1..Len(regs) |->
              Pattern(((i - 1) % NumPatterns) + 1, Capacity(w, regs, sizes, i))]}
ReadBufferLists(w, regs, sizes) ==
    SeqProduct([i \in 1..Len(regs) |-> ReadBuffers(w, regs[i], Capacity(w, regs, sizes, i))])

\* what the model remembers of the latest call: its arguments and its results
NoCall ==
    [api |-> "none", regs |-> <<>>, vals |-> <<>>, sizes |-> <<>>, ret |-> UC_ERR_OK,
     out |-> <<>>, ev |-> <<>>]
Called(api, regs, vals, sizes, ret, out, ev) ==
    [api |-> api, regs |-> regs, vals |-> vals, sizes |-> sizes, ret |-> ret,
     out |-> out, ev |-> ev]

----------------------------------------------------------------------------
(* The entry points.                                                       *)

x86_reg_read ==
    /\ arch = "x86" /\ "live" \in working.handles
    /\ \E regs \in ReadRegLists(working) : \E sizes \in SizeLists(working, regs) :
       \E vals \in ReadBufferLists(working, regs, sizes) :
           \E r \in {reg_read_batch(env, regs, vals, sizes, mode, 1)} :
               /\ env' = r.env
               /\ last' = Called("x86_reg_read", regs, vals, sizes, r.ret, r.out, <<>>)
    /\ UNCHANGED <<arch, mode, ctx, quit_request, working>>

x86_reg_write ==
    /\ arch = "x86" /\ "live" \in working.handles
    /\ \E regs \in WriteRegLists(working) : \E sizes \in SizeLists(working, regs) :
       \E vals \in WriteValueLists(working, regs, sizes) :
           \E r \in {x86_reg_write_result(env, quit_request, regs, vals, sizes, mode)} :
               /\ env' = r.env
               /\ quit_request' = r.quit
               /\ last' = Called("x86_reg_write", regs, vals, sizes, r.ret, <<>>, r.ev)
    /\ UNCHANGED <<arch, mode, ctx, working>>

x86_context_reg_read ==
    /\ arch = "x86" /\ "ctx" \in working.handles
    /\ \E regs \in ReadRegLists(working) : \E sizes \in SizeLists(working, regs) :
       \E vals \in ReadBufferLists(working, regs, sizes) :
           \E r \in {reg_read_batch(ctx, regs, vals, sizes, mode, 1)} :
               /\ ctx' = r.env
               /\ last' = Called("x86_context_reg_read", regs, vals, sizes, r.ret, r.out, <<>>)
    /\ UNCHANGED <<arch, mode, env, quit_request, working>>

\* x86_context_reg_write sharing the path of x86_reg_write, request included
x86_context_reg_write_as_live ==
    /\ arch = "x86" /\ "ctx" \in working.handles
    /\ \E regs \in WriteRegLists(working) : \E sizes \in SizeLists(working, regs) :
       \E vals \in WriteValueLists(working, regs, sizes) :
           \E r \in {x86_reg_write_result(ctx, quit_request, regs, vals, sizes, mode)} :
               /\ ctx' = r.env
               /\ quit_request' = r.quit
               /\ last' = Called("x86_context_reg_write", regs, vals, sizes, r.ret, <<>>, r.ev)
    /\ UNCHANGED <<arch, mode, env, working>>

x86_context_reg_write ==
    /\ arch = "x86" /\ "ctx" \in working.handles
    /\ \E regs \in WriteRegLists(working) : \E sizes \in SizeLists(working, regs) :
       \E vals \in WriteValueLists(working, regs, sizes) :
           \E r \in {x86_context_reg_write_result(ctx, regs, vals, sizes, mode)} :
               /\ ctx' = r.env
               /\ last' = Called("x86_context_reg_write", regs, vals, sizes, r.ret, <<>>, <<>>)
    /\ UNCHANGED <<arch, mode, env, quit_request, working>>

sparc_reg_read ==
    /\ arch = "sparc" /\ "live" \in working.handles
    /\ \E regs \in ReadRegLists(working) : \E sizes \in SizeLists(working, regs) :
       \E vals \in ReadBufferLists(working, regs, sizes) :
           \E r \in {sparc_read_loop(env, regs, vals, sizes, 1)} :
               last' = Called("sparc_reg_read", regs, vals, sizes, r.ret, r.out, <<>>)
    /\ UNCHANGED <<arch, mode, env, ctx, quit_request, working>>

sparc_reg_write ==
    /\ arch = "sparc" /\ "live" \in working.handles
    /\ \E regs \in WriteRegLists(working) : \E sizes \in SizeLists(working, regs) :
       \E vals \in WriteValueLists(working, regs, sizes) :
           \E r \in {sparc_write_loop(env, quit_request, regs, vals, sizes, 1, <<>>)} :
               /\ env' = r.env
               /\ quit_request' = r.quit
               /\ last' = Called("sparc_reg_write", regs, vals, sizes, r.ret, <<>>, r.ev)
    /\ UNCHANGED <<arch, mode, ctx, working>>

sparc_context_reg_read ==
    /\ arch = "sparc" /\ "ctx" \in working.handles
    /\ \E regs \in ReadRegLists(working) : \E sizes \in SizeLists(working, regs) :
       \E vals \in ReadBufferLists(working, regs, sizes) :
           \E r \in {sparc_context_read_loop(ctx, regs, vals, sizes, 1)} :
               last' = Called("sparc_context_reg_read", regs, vals, sizes, r.ret, r.out, <<>>)
    /\ UNCHANGED <<arch, mode, env, ctx, quit_request, working>>

sparc_context_reg_write ==
    /\ arch = "sparc" /\ "ctx" \in working.handles
    /\ \E regs \in WriteRegLists(working) : \E sizes \in SizeLists(working, regs) :
       \E vals \in WriteValueLists(working, regs, sizes) :
           \E r \in {sparc_context_write_loop(ctx, regs, vals, sizes, 1)} :
               /\ ctx' = r.env
               /\ last' = Called("sparc_context_reg_write", regs, vals, sizes, r.ret, <<>>, <<>>)
    /\ UNCHANGED <<arch, mode, env, quit_request, working>>

\* the record the reset entry point leaves, given the one construction left
ResetState(a, m) ==
    IF a = "sparc" THEN sparc_reg_reset(SparcBlank) ELSE x86_reg_reset(X86Blank, m)

\* the addresses the engine passes to set_pc
PcAddresses ==
    {Zero(8), <<0, 16, 0, 0, 0, 0, 0, 0>>, <<255, 255, 15, 0, 0, 0, 0, 0>>}

\* uc->reg_reset on the live engine
reg_reset ==
    /\ env' = IF arch = "sparc" THEN sparc_reg_reset(env) ELSE x86_reg_reset(env, mode)
    /\ last' = Called("reg_reset", <<>>, <<>>, <<>>, UC_ERR_OK, <<>>, <<>>)
    /\ UNCHANGED <<arch, mode, ctx, quit_request, working>>

\* uc->set_pc on the live engine
set_pc ==
    /\ \E address \in PcAddresses :
           /\ env' = IF arch = "sparc" THEN sparc_set_pc(env, address)
                      ELSE x86_set_pc(env, mode, address)
           /\ last' = Called("set_pc", <<>>, <<address>>, <<>>, UC_ERR_OK, <<>>, <<>>)
    /\ UNCHANGED <<arch, mode, ctx, quit_request, working>>

\* uc->get_pc on the live engine
get_pc ==
    /\ last' = Called("get_pc", <<>>, <<>>, <<>>, UC_ERR_OK,
                      <<IF arch = "sparc" THEN sparc_get_pc(env)
                        ELSE x86_get_pc(env, mode)>>, <<>>)
    /\ UNCHANGED <<arch, mode, env, ctx, quit_request, working>>

\* an engine of the chosen architecture and mode after construction and reset,
\* with a snapshot taken of it
InitWith(W) ==
    \E w \in W :
        /\ working = w
        /\ arch = w.arch
        /\ mode = w.mode
        /\ env = ResetState(w.arch, w.mode)
        /\ ctx = ResetState(w.arch, w.mode)
        /\ quit_request = FALSE
        /\ last = NoCall

Init == InitWith(SingleWork)
InitGroup == InitWith(GroupWork)
InitBatch == InitWith(BatchWork)
InitSamples == InitWith(SampleWork)
InitCallbacks == InitWith(CallbackWork)

Next ==
    \/ x86_reg_read
    \/ x86_reg_write
    \/ x86_context_reg_read
    \/ x86_context_reg_write
    \/ sparc_reg_read
    \/ sparc_reg_write
    \/ sparc_context_reg_read
    \/ sparc_context_reg_write

Spec == Init /\ [][Next]_vars
SpecGroup == InitGroup /\ [][Next]_vars
SpecBatch == InitBatch /\ [][Next]_vars
SpecSamples == InitSamples /\ [][Next]_vars

\* the entry points and the callbacks reg_reset, set_pc and get_pc
NextCallbacks ==
    \/ Next
    \/ reg_reset
    \/ set_pc
    \/ get_pc

SpecCallbacks == InitCallbacks /\ [][NextCallbacks]_vars

----------------------------------------------------------------------------
(* The properties.  A step of Next is one call: last' holds its arguments  *)
(* and results, the unprimed variables the state it found, the primed ones *)
(* the state it left.                                                      *)

ReadApis ==
    {"x86_reg_read", "x86_context_reg_read", "sparc_reg_read", "sparc_context_reg_read"}
WriteApis ==
    {"x86_reg_write", "x86_context_reg_write", "sparc_reg_write", "sparc_context_reg_write"}
LiveWriteApis == {"x86_reg_write", "sparc_reg_write"}
ContextApis ==
    {"x86_context_reg_read", "x86_context_reg_write",
     "sparc_context_reg_read", "sparc_context_reg_write"}

\* the record a call works on: the snapshot's for a context call
Target(call, e, c) == IF call.api \in ContextApis THEN c ELSE e

\* a call with one element whose declared size is not the identifier's width
SizeMismatch(call, a, m) ==
    /\ call.api \in ReadApis \cup WriteApis
    /\ Len(call.regs) = 1
    /\ call.sizes # <<>>
    /\ SemanticWidth(a, m, call.regs[1]) > 0
    /\ call.sizes[1] # SemanticWidth(a, m, call.regs[1])

\* C1: a single-register read or write whose declared size is supplied and
\* differs from the width of the identifier in the mode returns UC_ERR_ARG and
\* copies nothing: both state records are as before and, for a read, so is the
\* caller's buffer.
C1_SizeMismatchRejected ==
    [][SizeMismatch(last', arch, mode) =>
          /\ last'.ret = UC_ERR_ARG
          /\ env' = env
          /\ ctx' = ctx
          /\ (last'.api \in ReadApis => last'.out = last'.vals)]_vars

X86WriteApis == {"x86_reg_write", "x86_context_reg_write"}

\* an x86 write of one identifier the mode knows, its declared size the width
MatchedWrite(call, m) ==
    /\ call.api \in X86WriteApis
    /\ Len(call.regs) = 1
    /\ call.sizes # <<>>
    /\ X86Width(m, call.regs[1]) > 0
    /\ call.sizes[1] = X86Width(m, call.regs[1])

\* the buffer the caller reads the identifier back into
ReadBackBuffer(id, v, w) ==
    IF id \in DOMAIN DT_OF THEN PoisonMmr
    ELSE IF id = "MSR" THEN [rid |-> v.rid, value |-> Poison(8)]
    ELSE Poison(w)

\* the read of the same identifier with matching size that follows the write
ReadBack(e, id, v, m) ==
    reg_read(e, id, ReadBackBuffer(id, v, X86Width(m, id)), <<X86Width(m, id)>>, m)

Returns(r, v) == r.ret = UC_ERR_OK /\ r.value = v

\* the write succeeded and the read that follows succeeds and returns its value
RoundTrip(call, post, m) ==
    /\ call.ret = UC_ERR_OK
    /\ Returns(ReadBack(post, call.regs[1], call.vals[1], m), call.vals[1])

\* the registers the round trip is documented to lose information on
LossyIds == {"FLAGS", "EFLAGS", "RFLAGS", "FPTAG"}

PartialIds(m) ==
    {"IDTR", "GDTR", "MSR"} \cup (IF m = 64 THEN {} ELSE {"LDTR", "TR"})

\* the ways a write with matching size may fail: a selector the legality
\* pre-check refuses, and FS_BASE outside 64-bit mode, which only reads know
RefusedWrite(call, m) ==
    \/ call.regs[1] \in DOMAIN SEG_OF /\ call.ret = UC_ERR_EXCEPTION
    \/ call.regs[1] = "FS_BASE" /\ m # 64 /\ call.ret = UC_ERR_ARG

ViewBytes(m, id) ==
    IF id \in DOMAIN GPR32_BYTE_H \cup DOMAIN GPR64_BYTE_H THEN {2}
    ELSE 1..X86Width(m, id)

\* an x86 write of one narrow view of a general register
NarrowWrite(call, m) ==
    /\ call.api \in X86WriteApis
    /\ Len(call.regs) = 1
    /\ call.regs[1] \in GprIds(m) \ FullIds(m)

\* the bytes of slot s outside the set view are in post what they are in pre
SameOutside(pre, post, s, view) ==
    \A i \in (1..8) \ view : post.regs[s][i] = pre.regs[s][i]

\* C3: on x86, a write of a narrow view of a general register (low byte, high
\* byte, word, and in 64-bit mode the dword) leaves every byte, hence every
\* bit, of the backing register outside the view as it was, in every mode that
\* knows the identifier.
C3_NarrowWritePreserves ==
    [][NarrowWrite(last', mode) =>
          SameOutside(Target(last', env, ctx), Target(last', env', ctx'),
                      SlotOf(mode, last'.regs[1]), ViewBytes(mode, last'.regs[1]))]_vars

\* EAX was written in 64-bit mode over a full RAX: the low dword holds the new
\* value and the high dword still what the write of RAX left
C3_Witness ==
    /\ NarrowWrite(last, mode)
    /\ mode = 64
    /\ last.regs = <<"EAX">>
    /\ last.ret = UC_ERR_OK
    /\ SubSeq(env.regs["R_EAX"], 1, 4) = last.vals[1]
    /\ SubSeq(env.regs["R_EAX"], 5, 8) = SubSeq(Pattern(1, 8), 5, 8)

\* one element written on its own: what the static reg_write of the
\* architecture returns for it
WriteOne(a, m, e, id, v, size) ==
    IF a = "sparc" THEN reg_write_sparc(e, id, v, size) ELSE reg_write(e, id, v, size, m, 0)

\* the record after the first k elements of a call were written one by one
RECURSIVE AppliedPrefix(_, _, _, _, _)
AppliedPrefix(a, m, e, call, k) ==
    IF k = 0 THEN e
    ELSE WriteOne(a, m, AppliedPrefix(a, m, e, call, k - 1), call.regs[k], call.vals[k],
                  SizeAt(call.sizes, k)).env

\* what element k returns when the elements before it have been written
ElementRet(a, m, e, call, k) ==
    WriteOne(a, m, AppliedPrefix(a, m, e, call, k - 1), call.regs[k], call.vals[k],
             SizeAt(call.sizes, k)).ret

\* the first element from k on that fails, Len + 1 when none does
RECURSIVE FirstFailureFrom(_, _, _, _, _)
FirstFailureFrom(a, m, e, call, k) ==
    IF k > Len(call.regs) THEN k
    ELSE IF ElementRet(a, m, e, call, k) # UC_ERR_OK THEN k
    ELSE FirstFailureFrom(a, m, e, call, k + 1)

FirstFailure(a, m, e, call) == FirstFailureFrom(a, m, e, call, 1)

\* the call stopped at element j: the elements before it are in the record,
\* it and those after it are not, and its error is the call's
StoppedAt(a, m, pre, post, call, j) ==
    /\ post = AppliedPrefix(a, m, pre, call, j - 1)
    /\ call.ret = (IF j > Len(call.regs) THEN UC_ERR_OK ELSE ElementRet(a, m, pre, call, j))
    /\ (call.ret = UC_ERR_OK <=> j > Len(call.regs))

\* C4: a batch write is applied in list order and is not transactional: when
\* element j is the first to fail, the elements before it stay written in the
\* state record, element j and those after it leave no trace in it, and the
\* call returns the error of element j; the call returns success only when
\* every element succeeded.
C4_BatchWriteStopsAtFirstFailure ==
    [][last'.api \in WriteApis =>
          StoppedAt(arch, mode, Target(last', env, ctx), Target(last', env', ctx'), last',
                    FirstFailure(arch, mode, Target(last', env, ctx), last'))]_vars

\* a list of two whose second element failed: the first is in the record
C4_Witness ==
    /\ last.api = "x86_reg_write"
    /\ mode = 64
    /\ last.regs = <<"RAX", "INVALID">>
    /\ last.ret = UC_ERR_ARG
    /\ env.regs["R_EAX"] = last.vals[1]

\* how many program-counter elements of a call were applied: those before the
\* first failure
AppliedPcWrites(a, m, e, call) ==
    Cardinality({k \in 1..Len(call.regs) :
                    /\ k < FirstFailure(a, m, e, call)
                    /\ call.regs[k] \in PcIds(a)})

\* C5: on the live CPU (x86 and SPARC) the abort request is raised exactly once
\* for each program-counter write that is applied: a call with one
\* program-counter element raises exactly one request, a batch that applies k
\* of them raises exactly k, and quit_request is set when one was raised.
C5_OneRequestPerPcWrite ==
    [][last'.api \in LiveWriteApis =>
          /\ Len(last'.ev) = AppliedPcWrites(arch, mode, env, last')
          /\ (last'.ev # <<>> => quit_request')]_vars

\* C6: a live write call, successful or failed, whose identifier list holds no
\* program-counter identifier raises no abort request: quit_request keeps its
\* value and the translation loop is not broken.
C6_NoRequestWithoutPc ==
    [][(last'.api \in LiveWriteApis /\ Range(last'.regs) \cap PcIds(arch) = {}) =>
          /\ last'.ev = <<>>
          /\ quit_request' = quit_request]_vars

\* a request is pending and a general register was written after it
C6_Witness ==
    /\ last.api = "x86_reg_write"
    /\ last.regs = <<"RAX">>
    /\ last.ret = UC_ERR_OK
    /\ env.regs["R_EAX"] = last.vals[1]
    /\ last.ev = <<>>
    /\ quit_request = TRUE

\* C7: a write through a snapshot handle, of the program counter too, raises
\* no abort request and changes nothing outside the snapshot's record: the
\* live CPU's state record and quit_request are after the call what they were
\* before it.
C7_SnapshotWriteIsLocal ==
    [][(last'.api \in WriteApis \cap ContextApis) =>
          /\ last'.ev = <<>>
          /\ quit_request' = quit_request
          /\ env' = env]_vars

\* the snapshot's program counter was written: the snapshot holds the value,
\* the live record does not, and no request is pending
C7_Witness ==
    /\ last.api = "x86_context_reg_write"
    /\ last.regs = <<"RIP">>
    /\ last.ret = UC_ERR_OK
    /\ ctx.eip = last.vals[1]
    /\ env.eip # ctx.eip
    /\ quit_request = FALSE

\* the program counter of a state record
PcOf(a, e) == IF a = "sparc" THEN e.pc ELSE e.eip

\* the request was raised after element at: a program-counter element is among
\* the first at, and the program counter the record held at the raise is the
\* one it holds with those elements written
RaisedAfterCommit(a, m, pre, call, event) ==
    /\ \E k \in 1..event.at : call.regs[k] \in PcIds(a)
    /\ event.pc = PcOf(a, AppliedPrefix(a, m, pre, call, event.at))

\* C8: whenever the abort request is raised because of a live program-counter
\* write, the new program-counter value is already stored in the state record:
\* no request is raised for a write whose mutation is not yet committed.
C8_RequestAfterCommit ==
    [][last'.api \in LiveWriteApis =>
          \A n \in 1..Len(last'.ev) :
              RaisedAfterCommit(arch, mode, env, last', last'.ev[n])]_vars

\* a request was raised for a write of RIP, with the written value in place
C8_Witness ==
    /\ last.api = "x86_reg_write"
    /\ last.regs = <<"RIP">>
    /\ Len(last.ev) = 1
    /\ last.ev[1].pc = last.vals[1]
    /\ env.eip = last.vals[1]
    /\ quit_request = TRUE

\* a program-counter element was applied and a later element failed
PcThenFailure(a, m, e, call) ==
    /\ FirstFailure(a, m, e, call) <= Len(call.regs)
    /\ AppliedPcWrites(a, m, e, call) > 0

\* C9: for every live batch write (x86 and SPARC), when an element that writes
\* the program counter was applied and a later element of the batch fails, the
\* abort request has been raised by the time the call returns.
C9_CommittedPcWriteIsNotified ==
    [][(last'.api \in LiveWriteApis /\ PcThenFailure(arch, mode, env, last')) =>
          /\ last'.ev # <<>>
          /\ quit_request']_vars

\* the segment cases that ask the legality pre-check: CS in 16-bit mode (by
\* fall-through), all six in 32-bit mode, FS and GS in 64-bit mode
AsksPreCheck(m, id) ==
    IF m = 16 THEN id = "CS"
    ELSE IF m = 32 THEN id \in DOMAIN SEG_OF
    ELSE id \in {"FS", "GS"}

\* a write of one segment selector that the pre-check refuses
RefusedSelector(call, m, pre) ==
    /\ call.api \in X86WriteApis
    /\ Len(call.regs) = 1
    /\ call.regs[1] \in DOMAIN SEG_OF
    /\ AsksPreCheck(m, call.regs[1])
    /\ CHECK_REG_TYPE(call.sizes, 2)
    /\ uc_check_cpu_x86_load_seg(pre, SEG_OF[call.regs[1]], Cast(call.vals[1], 2)) # UC_ERR_OK

SelectorWrite(call) ==
    /\ call.api \in X86WriteApis
    /\ Len(call.regs) = 1
    /\ call.regs[1] \in DOMAIN SEG_OF
    /\ CHECK_REG_TYPE(call.sizes, 2)

\* what the legality pre-check says of the selector a call writes, asked
\* before the call touched the record
Verdict(call, pre) ==
    uc_check_cpu_x86_load_seg(pre, SEG_OF[call.regs[1]], Cast(call.vals[1], 2))

\* C11: on x86, in 16-, 32- and 64-bit mode, every selector write to CS, DS,
\* SS, ES, FS or GS asks the legality pre-check before the register is
\* mutated, and the register is mutated only when the pre-check reports the
\* load legal: a selector the pre-check refuses is answered with the error of
\* the pre-check and the state record stays as it was.
C11_SelectorWriteAsksPreCheck ==
    [][(SelectorWrite(last') /\ Verdict(last', Target(last', env, ctx)) # UC_ERR_OK) =>
          /\ last'.ret = Verdict(last', Target(last', env, ctx))
          /\ env' = env
          /\ ctx' = ctx]_vars

\* an identifier the accessor has no case for in the mode
UnknownId(a, m, id) == SemanticWidth(a, m, id) = 0

\* a call that names one identifier, unknown in the mode
UnknownAccess(call, a, m) ==
    /\ call.api \in ReadApis \cup WriteApis
    /\ Len(call.regs) = 1
    /\ UnknownId(a, m, call.regs[1])

\* C12: a read or write of an identifier that is not valid for the current
\* mode (a 64-bit-only identifier in 16- or 32-bit mode, or one outside the
\* enumeration of the architecture) returns UC_ERR_ARG whatever size is
\* declared, leaves both state records unchanged and, for a read, leaves the
\* caller's buffer unchanged.
C12_UnknownIdRejected ==
    [][UnknownAccess(last', arch, mode) =>
          /\ last'.ret = UC_ERR_ARG
          /\ env' = env
          /\ ctx' = ctx
          /\ quit_request' = quit_request
          /\ (last'.api \in ReadApis => last'.out = last'.vals)]_vars

\* RAX was written in 32-bit mode, which has no such register: the call
\* failed and the slot EAX views is still zero
C12_Witness ==
    /\ last.api = "x86_reg_write"
    /\ mode = 32
    /\ last.regs = <<"RAX">>
    /\ last.vals[1] # Zero(Len(last.vals[1]))
    /\ last.ret = UC_ERR_ARG
    /\ env.regs["R_EAX"] = Zero(8)

\* what a call returns: the code, the buffers and the record it leaves
Outcome(ret, out, e) == [ret |-> ret, out |-> out, env |-> e]

\* the call made through the live entry point of the architecture on record e
ViaLive(a, m, e, call) ==
    IF call.api \in ReadApis THEN
        IF a = "sparc"
        THEN LET r == sparc_read_loop(e, call.regs, call.vals, call.sizes, 1)
             IN  Outcome(r.ret, r.out, e)
        ELSE LET r == reg_read_batch(e, call.regs, call.vals, call.sizes, m, 1)
             IN  Outcome(r.ret, r.out, r.env)
    ELSE IF a = "sparc"
    THEN LET r == sparc_write_loop(e, FALSE, call.regs, call.vals, call.sizes, 1, <<>>)
         IN  Outcome(r.ret, <<>>, r.env)
    ELSE LET r == x86_reg_write_result(e, FALSE, call.regs, call.vals, call.sizes, m)
         IN  Outcome(r.ret, <<>>, r.env)

\* the call made through the snapshot entry point on record e
ViaSnapshot(a, m, e, call) ==
    IF call.api \in ReadApis THEN
        IF a = "sparc"
        THEN LET r == sparc_context_read_loop(e, call.regs, call.vals, call.sizes, 1)
             IN  Outcome(r.ret, r.out, e)
        ELSE LET r == reg_read_batch(e, call.regs, call.vals, call.sizes, m, 1)
             IN  Outcome(r.ret, r.out, r.env)
    ELSE IF a = "sparc"
    THEN LET r == sparc_context_write_loop(e, call.regs, call.vals, call.sizes, 1)
         IN  Outcome(r.ret, <<>>, r.env)
    ELSE LET r == x86_context_reg_write_result(e, call.regs, call.vals, call.sizes, m)
         IN  Outcome(r.ret, <<>>, r.env)

\* the same call through the handle it was not made through
ViaOtherHandle(a, m, e, call) ==
    IF call.api \in ContextApis THEN ViaLive(a, m, e, call) ELSE ViaSnapshot(a, m, e, call)

\* C13: live and snapshot access are the same accessor: a read or write call
\* made through the entry point of one handle returns the error code and the
\* read values, and leaves the state record, that the entry point of the other
\* handle returns and leaves for the same arguments on an equal record in the
\* same mode; call by call, so also for every sequence of calls.  Only the
\* abort request differs, which the snapshot entry points never raise.
C13_LiveAndSnapshotAgree ==
    [][last'.api \in ReadApis \cup WriteApis =>
          /\ ViaOtherHandle(arch, mode, Target(last', env, ctx), last')
                 = Outcome(last'.ret, last'.out, Target(last', env', ctx'))
          /\ (last'.api \in ContextApis => last'.ev = <<>> /\ quit_request' = quit_request)]_vars

\* the program counter was written through both handles: the two records are
\* equal again, and only the live write left a request
C13_Witness ==
    /\ last.api = "x86_context_reg_write"
    /\ last.regs = <<"RIP">>
    /\ last.ret = UC_ERR_OK
    /\ ctx.eip = last.vals[1]
    /\ env = ctx
    /\ quit_request = TRUE

SparcWriteApis == {"sparc_reg_write", "sparc_context_reg_write"}

\* a SPARC write of one supported identifier with declared size 4
SparcMatchedWrite(call) ==
    /\ call.api \in SparcWriteApis
    /\ Len(call.regs) = 1
    /\ call.regs[1] \in SparcIds
    /\ call.sizes = <<4>>

\* the read of the same identifier with declared size 4 that follows the write
SparcReadBack(e, id) == reg_read_sparc(e, id, Poison(4), <<4>>)

\* C14: on SPARC, for each of G0..G7, O0..O7, L0..L7, I0..I7 and PC, a write
\* of a 32-bit value v with declared size 4 followed immediately by a read of
\* the same identifier with declared size 4 reports success for both calls
\* and the read returns v.
C14_SparcRoundTrip ==
    [][SparcMatchedWrite(last') =>
          /\ last'.ret = UC_ERR_OK
          /\ Returns(SparcReadBack(Target(last', env', ctx'), last'.regs[1]),
                     last'.vals[1])]_vars


----------------------------------------------------------------------------
(* The x87 tag word.                                                       *)

X86ReadApis == {"x86_reg_read", "x86_context_reg_read"}

\* a call of one of the apis for the single identifier id
OneCall(call, apis, id) == call.api \in apis /\ call.regs = <<id>>

\* bits 2i..2i+1 of a 16-bit word
FieldOf(w, i) == ((w[1] + 256 * w[2]) \div (4 ^ i)) % 4

\* the biased exponent of an 80-bit value, its mantissa, and bit 63 of it
Exponent(f) == f[9] + 256 * (f[10] % 128)
Mantissa(f) == SubSeq(f, 1, 8)
ExplicitBit(f) == Bit(f[8], 7)

\* the class of a slot as the tag word reports it: 3 empty, 1 zero,
\* 2 special, 0 valid
TagClass(empty, f) ==
    IF empty # 0 THEN 3
    ELSE IF Exponent(f) = 0 /\ Mantissa(f) = Zero(8) THEN 1
    ELSE IF Exponent(f) = 0 \/ Exponent(f) = 32767 \/ ExplicitBit(f) = 0 THEN 2
    ELSE 0

\* C15: a tag-word read that succeeds returns, at bits 2i..2i+1 for every
\* physical slot i, 3 when the slot's empty flag is set, else 1 when exponent
\* and mantissa are zero, else 2 when the exponent is zero or 0x7fff or bit 63
\* of the mantissa is clear, else 0; so an all-zero slot that is not empty
\* reads as zero and the maximum exponent as special whatever the mantissa.
C15_TagWordClassifies ==
    [][(OneCall(last', X86ReadApis, "FPTAG") /\ last'.ret = UC_ERR_OK) =>
           \A i \in 0..7 :
               LET pre == Target(last', env, ctx)
                   field == FieldOf(last'.out[1], i)
               IN  /\ field = TagClass(pre.fptags[i], pre.fpregs[i])
                   /\ (pre.fptags[i] = 0 /\ pre.fpregs[i] = Zero(10)) => field = 1
                   /\ (pre.fptags[i] = 0 /\ Exponent(pre.fpregs[i]) = 32767)
                          => field = 2]_vars

\* a tag-word read found slot 0 all zero and slot 5 at the maximum exponent
\* with bit 63 set, neither empty, and reported zero and special
C15_Witness ==
    /\ OneCall(last, X86ReadApis, "FPTAG") /\ last.ret = UC_ERR_OK
    /\ env.fptags[0] = 0 /\ env.fpregs[0] = Zero(10)
    /\ env.fptags[5] = 0 /\ Exponent(env.fpregs[5]) = 32767
    /\ ExplicitBit(env.fpregs[5]) = 1
    /\ FieldOf(last.out[1], 0) = 1 /\ FieldOf(last.out[1], 5) = 2

\* the empty flags a tag word asks for: slot i is empty where its field is 3
EmptyFlags(w) == [i \in 0..7 |-> IF FieldOf(w, i) = 3 THEN 1 ELSE 0]

\* C16: a tag-word write of w that succeeds sets the empty flag of slot i
\* exactly when field i of w is 3 and changes nothing else, the data registers
\* included; the tag-word read that follows reports empty for exactly those
\* slots, and writing back the word it returns leaves the empty flags as they
\* are.
C16_TagWriteKeepsEmptyBitOnly ==
    [][(OneCall(last', X86WriteApis, "FPTAG") /\ last'.ret = UC_ERR_OK) =>
           LET pre == Target(last', env, ctx)
               post == Target(last', env', ctx')
               w == last'.vals[1]
               rd == reg_read(post, "FPTAG", Poison(2), <<2>>, mode)
               back == reg_write(post, "FPTAG", rd.value, <<2>>, mode, FALSE)
           IN  /\ post = [pre EXCEPT !.fptags = EmptyFlags(w)]
               /\ post.fpregs = pre.fpregs
               /\ rd.ret = UC_ERR_OK
               /\ \A i \in 0..7 : FieldOf(rd.value, i) = 3 <=> FieldOf(w, i) = 3
               /\ back.ret = UC_ERR_OK
               /\ back.env.fptags = post.fptags]_vars

\* a tag-word write with field 3 at slots 0, 3, 5 and 6 left exactly those
\* slots empty, slot 5 still holding its value
C16_Witness ==
    /\ OneCall(last, X86WriteApis, "FPTAG") /\ last.ret = UC_ERR_OK
    /\ last.vals[1] = <<195, 60>>
    /\ env.fptags = [i \in 0..7 |-> IF i \in {0, 3, 5, 6} THEN 1 ELSE 0]
    /\ env.fpregs[5] # Zero(10)

----------------------------------------------------------------------------
(* The x87 register stack.                                                 *)

\* a successful call of one of the apis for one logical stack identifier
StackCall(call, apis) ==
    /\ call.api \in apis /\ Len(call.regs) = 1
    /\ call.regs[1] \in Range(X86_ST)
    /\ call.ret = UC_ERR_OK

\* the physical register ST(n) of the call stands for when the stack top is t
Physical(call, t) == (t + IndexOf(X86_ST, call.regs[1])) % 8

\* C17: with stack top t, a write of ST(n) that succeeds stores the value in
\* physical register (t + n) mod 8 and changes nothing else, so the seven other
\* physical registers keep their values and the read of FP((t + n) mod 8) that
\* follows returns the value; a read of ST(n) returns physical register
\* (t + n) mod 8 and changes nothing.
C17_StackAddressesCircularly ==
    [][LET pre == Target(last', env, ctx)
           post == Target(last', env', ctx')
           p == Physical(last', pre.fpstt)
           rd == reg_read(post, X86_FP[p + 1], Poison(10), <<10>>, mode)
       IN  /\ StackCall(last', X86WriteApis) =>
                  /\ post = [pre EXCEPT !.fpregs[p] = last'.vals[1]]
                  /\ \A i \in 0..7 \ {p} : post.fpregs[i] = pre.fpregs[i]
                  /\ rd.ret = UC_ERR_OK /\ rd.value = last'.vals[1]
           /\ StackCall(last', X86ReadApis) =>
                  /\ last'.out[1] = pre.fpregs[p]
                  /\ post = pre]_vars

\* with the stack top at 7, a write of ST6 went to physical register 5, the
\* wrapped index, and to no other
C17_Witness ==
    /\ StackCall(last, X86WriteApis) /\ last.regs = <<"ST6">>
    /\ env.fpstt = 7
    /\ last.vals[1] # Zero(10)
    /\ env.fpregs = [i \in 0..7 |-> IF i = 5 THEN last.vals[1] ELSE Zero(10)]

----------------------------------------------------------------------------
(* The x87 status word.                                                    *)

\* a 16-bit word as a number, bits 11..13 of it, and the word without them
Word16(w) == w[1] + 256 * w[2]
TopField(w) == (Word16(w) \div 2048) % 8
WithoutTop(w) == Word16(w) - 2048 * TopField(w)

\* C18: a status-word read that succeeds returns the stored status with bits
\* 11..13 replaced by the stack top and changes nothing; a status-word write
\* of v that succeeds stores v with bits 11..13 cleared, sets the stack top to
\* bits 11..13 of v and changes nothing else, so the stored status has bits
\* 11..13 clear and the read that follows returns v.
C18_StatusWordCarriesTop ==
    [][LET pre == Target(last', env, ctx)
           post == Target(last', env', ctx')
           v == last'.vals[1]
           rd == reg_read(post, "FPSW", Poison(2), <<2>>, mode)
       IN  /\ (OneCall(last', X86ReadApis, "FPSW") /\ last'.ret = UC_ERR_OK) =>
                  /\ Word16(last'.out[1]) = WithoutTop(pre.fpus) + 2048 * pre.fpstt
                  /\ post = pre
           /\ (OneCall(last', X86WriteApis, "FPSW") /\ last'.ret = UC_ERR_OK) =>
                  /\ Word16(post.fpus) = WithoutTop(v)
                  /\ post.fpstt = TopField(v)
                  /\ post = [pre EXCEPT !.fpus = post.fpus, !.fpstt = post.fpstt]
                  /\ TopField(post.fpus) = 0
                  /\ rd.ret = UC_ERR_OK /\ rd.value = v]_vars

\* a status word with every bit of the high byte set was written: the stack
\* top is 7 and the stored status has lost bits 11..13 and kept the rest
C18_Witness ==
    /\ OneCall(last, X86WriteApis, "FPSW") /\ last.ret = UC_ERR_OK
    /\ last.vals[1] = <<165, 255>>
    /\ Target(last, env, ctx).fpstt = 7
    /\ Target(last, env, ctx).fpus = <<165, 199>>

----------------------------------------------------------------------------
(* The model-specific registers.                                           *)

\* a call for the single identifier MSR whose declared size, if any, is that
\* of the structure
MsrCall(call, apis) ==
    /\ OneCall(call, apis, "MSR")
    /\ CHECK_REG_TYPE(call.sizes, SizeofMsr)

\* the three general registers the MSR accessors lend to the micro-operation
Borrowed == {"R_EAX", "R_ECX", "R_EDX"}

\* C19: a model-specific-register read or write reports success and leaves
\* EAX, ECX and EDX with all 64 bits they held before the call; a read
\* changes nothing at all in the record.
C19_MsrAccessRestoresRegisters ==
    [][LET pre == Target(last', env, ctx)
           post == Target(last', env', ctx')
       IN  /\ MsrCall(last', X86ReadApis \cup X86WriteApis) =>
                  /\ last'.ret = UC_ERR_OK
                  /\ \A r \in Borrowed : post.regs[r] = pre.regs[r]
           /\ MsrCall(last', X86ReadApis) => post = pre]_vars

\* a read returned a value that is not zero while EAX, ECX and EDX held values
\* of the caller that differ from what the micro-operation put there, and
\* they still hold them
C19_Witness ==
    /\ MsrCall(last, X86ReadApis) /\ last.ret = UC_ERR_OK
    /\ last.out[1].value # Zero(8)
    /\ LET e == Target(last, env, ctx)
       IN  /\ \A r \in Borrowed : e.regs[r] # Zero(8)
           /\ e.regs["R_EAX"] # Cast(SubSeq(last.out[1].value, 1, 4), 8)
           /\ e.regs["R_EDX"] # Cast(SubSeq(last.out[1].value, 5, 8), 8)
           /\ e.regs["R_ECX"] # Cast(last.out[1].rid, 8)

----------------------------------------------------------------------------
(* The control registers.                                                  *)

\* a successful call of one of the apis for one control register
CrCall(call, apis) ==
    /\ call.api \in apis /\ Len(call.regs) = 1
    /\ call.regs[1] \in X86_CR_IDS
    /\ call.ret = UC_ERR_OK

\* the width of a control register for the caller: 4 bytes, 8 in 64-bit mode
CrWidth(m) == IF m = 64 THEN 8 ELSE 4

\* the record after the update routine of the identifier has run on e with
\* the low 32 bits of the value
UpdateRoutine(e, id, v) ==
    IF id = "CR0" THEN cpu_x86_update_cr0(e, Cast(v, 4))
    ELSE IF id = "CR4" THEN cpu_x86_update_cr4(e, Cast(v, 4))
    ELSE cpu_x86_update_cr3(e, Cast(v, 4))

\* C20: in every mode a control-register write that succeeds leaves the
\* record the update routine makes of the state before the call, with the raw
\* value put in the slot afterwards: the routine ran on the old slot and the
\* slot holds the value as written, not what the routine stored there; a
\* control-register read that succeeds returns the slot at the caller's width
\* and changes nothing.
C20_UpdateThenLatch ==
    [][LET pre == Target(last', env, ctx)
           post == Target(last', env', ctx')
           k == IndexOf(X86_CR, last'.regs[1])
           raw == Cast(Cast(last'.vals[1], CrWidth(mode)), 8)
       IN  /\ CrCall(last', X86WriteApis) =>
                  /\ post = [UpdateRoutine(pre, last'.regs[1], last'.vals[1])
                                EXCEPT !.cr[k] = raw]
                  /\ post.cr[k] = raw
           /\ CrCall(last', X86ReadApis) =>
                  /\ last'.out[1] = Cast(pre.cr[k], CrWidth(mode))
                  /\ post = pre]_vars

\* a 32-bit write of CR0 with bit 4 clear and bit 1 set: the hidden flag the
\* routine derives from bit 1 is there, and the slot holds the value as
\* written, without the bit 4 the routine forces
C20_Witness ==
    /\ CrCall(last, X86WriteApis) /\ last.regs = <<"CR0">>
    /\ mode = 32
    /\ Bit(last.vals[1][1], 4) = 0 /\ Bit(last.vals[1][1], 1) = 1
    /\ "HF_MP_MASK" \in Target(last, env, ctx).hflags
    /\ Target(last, env, ctx).cr[0] = Cast(last.vals[1], 8)

----------------------------------------------------------------------------
(* Reset.                                                                  *)

\* the step is a call of the reset entry point
ResetStep == last'.api = "reg_reset"

\* the registers of an x86 record that the claim wants zero after a reset in
\* mode m: the mode setup re-establishes limit and flags of the six segment
\* registers in 16-bit mode and CR0 in 32- and 64-bit mode
X86Zeroed(e, m) ==
    /\ \A r \in GprSlots : e.regs[r] = Zero(8)
    /\ \A g \in SegSlots :
           IF m = 16 THEN e.segs[g].selector = Zero(4) /\ e.segs[g].base = Zero(8)
           ELSE e.segs[g] = SegZero
    /\ \A i \in 0..4 : (i = 0 /\ m \in {32, 64}) \/ e.cr[i] = Zero(8)
    /\ \A i \in 0..7 : e.fpregs[i] = Zero(10) /\ e.fptags[i] = 0
    /\ e.fpus = Zero(2) /\ e.fpuc = Zero(2) /\ e.fpstt = 0

SparcZeroed(e) ==
    /\ \A i \in DOMAIN e.gregs : e.gregs[i] = Zero(4)
    /\ \A i \in DOMAIN e.regbase : e.regbase[i] = Zero(4)
    /\ e.pc = Zero(4) /\ e.npc = Zero(4)

\* C21: after the reset entry point returns, in every mode, the general
\* registers, the segment register fields the mode setup does not write, the
\* control registers and the floating-point registers (eight data registers,
\* status, control, tags, stack top) of x86 are zero, and so are the global and
\* window registers and pc and npc of SPARC.
C21_ResetZeroesRegisters ==
    [][ResetStep =>
           IF arch = "sparc" THEN SparcZeroed(env') ELSE X86Zeroed(env', mode)]_vars

\* 0xFFFF as the 32-bit limit of a segment
Limit16 == <<255, 255, 0, 0>>

\* C22: after a reset in 16-bit mode each of the six segment registers has
\* selector 0, base 0 and limit 0xFFFF; after a reset in 64-bit mode LMA and
\* LME are set in EFER and CS32, SS32, CS64 and LMA in the hidden flags.
C22_ResetModeSetup ==
    [][(ResetStep /\ arch = "x86") =>
           /\ mode = 16 =>
                  \A g \in SegSlots :
                      /\ env'.segs[g].selector = Zero(4)
                      /\ env'.segs[g].base = Zero(8)
                      /\ env'.segs[g].limit = Limit16
           /\ mode = 64 =>
                  /\ {"MSR_EFER_LMA", "MSR_EFER_LME"} \subseteq env'.efer
                  /\ {"HF_CS32_MASK", "HF_SS32_MASK", "HF_CS64_MASK", "HF_LMA_MASK"}
                         \subseteq env'.hflags]_vars

\* a reset in 16-bit mode of an engine whose instruction pointer had been
\* written left the data segment with limit 0xFFFF
C22_Witness ==
    /\ last.api = "reg_reset" /\ arch = "x86" /\ mode = 16
    /\ quit_request
    /\ env.segs["R_DS"].limit = Limit16
    /\ env.segs["R_DS"].selector = Zero(4)

\* the register state of an x86 record the claim speaks of: general registers,
\* instruction pointer, flags, segment, control and debug registers, the
\* floating-point data and status, the vector registers, the hidden flags
RegisterState(e) ==
    [regs |-> e.regs, eip |-> e.eip,
     eflags |-> e.eflags, cc_src |-> e.cc_src, df |-> e.df, cc_op |-> e.cc_op,
     segs |-> e.segs, cr |-> e.cr, dr |-> e.dr,
     fpregs |-> e.fpregs, fpus |-> e.fpus, fpstt |-> e.fpstt,
     fpuc |-> e.fpuc, fptags |-> e.fptags,
     xmm_regs |-> e.xmm_regs, ymmh_regs |-> e.ymmh_regs,
     hflags |-> e.hflags]

\* C23: the register state an x86 reset leaves does not depend on the state it
\* found: it is the register state the reset of a blank CPU of the same mode
\* leaves, whatever was written before, and a second reset changes nothing.
C23_ResetIsFull ==
    [][(ResetStep /\ arch = "x86") =>
           /\ RegisterState(env') = RegisterState(x86_reg_reset(X86Blank, mode))
           /\ x86_reg_reset(env', mode) = env']_vars

----------------------------------------------------------------------------
(* The program counter of the engine.                                      *)

\* C24: on x86, get_pc after set_pc(address) returns address: in 16-bit mode,
\* where the program counter is the selector of CS times 16 plus the offset,
\* for every selector of CS, and in 32- and 64-bit mode, where it is the
\* offset.
C24_SetPcThenGetPc ==
    [][(last'.api = "set_pc" /\ arch = "x86") =>
           x86_get_pc(env', mode) = last'.vals[1]]_vars

\* a live write of CS alone in 16-bit mode that succeeded and moved the
\* effective program counter
MovedPcThroughCs(call, m, pre, post) ==
    /\ OneCall(call, {"x86_reg_write"}, "CS")
    /\ m = 16
    /\ call.ret = UC_ERR_OK
    /\ x86_get_pc(post, m) # x86_get_pc(pre, m)

\* C25: a live write of CS in 16-bit mode that changes the effective program
\* counter raises the abort request, as a write of IP or EIP does: the call
\* raises one and quit_request is set when it returns.
C25_CsWriteIsNotified ==
    [][MovedPcThroughCs(last', mode, env, env') =>
           /\ last'.ev # <<>>
           /\ quit_request']_vars

----------------------------------------------------------------------------
(* The vector registers.                                                   *)

\* a successful call of one of the apis for one identifier of the table
TableCall(call, apis, table) ==
    /\ call.api \in apis /\ Len(call.regs) = 1
    /\ call.regs[1] \in Range(table)
    /\ call.ret = UC_ERR_OK

\* C26: a YMMn write that succeeds puts the lower 128 bits where XMMn reads
\* them and the upper 128 bits in the second storage area, and changes nothing
\* else; a YMMn read returns both halves and changes nothing; an XMMn write
\* changes the lower 128 bits of register n only, so the upper half of YMMn
\* and every other vector register keep their values.
C26_VectorViewsAlias ==
    [][LET pre == Target(last', env, ctx)
           post == Target(last', env', ctx')
           v == last'.vals[1]
       IN  /\ TableCall(last', X86WriteApis, X86_YMM) =>
                  LET n == IndexOf(X86_YMM, last'.regs[1])
                      rd == reg_read(post, X86_XMM[n + 1], Poison(16), <<16>>, mode)
                  IN  /\ post = [pre EXCEPT !.xmm_regs[n] = SubSeq(v, 1, 16),
                                            !.ymmh_regs[n] = SubSeq(v, 17, 32)]
                      /\ (n < 8 \/ mode = 64) =>
                             rd.ret = UC_ERR_OK /\ rd.value = SubSeq(v, 1, 16)
           /\ TableCall(last', X86ReadApis, X86_YMM) =>
                  LET n == IndexOf(X86_YMM, last'.regs[1])
                  IN  /\ last'.out[1] = pre.xmm_regs[n] \o pre.ymmh_regs[n]
                      /\ post = pre
           /\ TableCall(last', X86WriteApis, X86_XMM) =>
                  LET n == IndexOf(X86_XMM, last'.regs[1])
                  IN  /\ post.xmm_regs[n] = v
                      /\ post.ymmh_regs = pre.ymmh_regs
                      /\ \A i \in 0..15 \ {n} : post.xmm_regs[i] = pre.xmm_regs[i]
                      /\ post = [pre EXCEPT !.xmm_regs[n] = v]]_vars

\* XMM1 was written over a YMM1 that had both halves set, next to a YMM2 that
\* was set too: the upper half of YMM1 and both halves of YMM2 are still there
C26_Witness ==
    /\ TableCall(last, X86WriteApis, X86_XMM) /\ last.regs = <<"XMM1">>
    /\ env.xmm_regs[1] = last.vals[1]
    /\ env.ymmh_regs[1] # Zero(16)
    /\ env.ymmh_regs[1] # SubSeq(last.vals[1], 1, 16)
    /\ env.xmm_regs[2] # Zero(16) /\ env.ymmh_regs[2] # Zero(16)


-----------------------------------------------------------------------------
(* The descriptor-table registers.                                         *)

\* a successful write of one descriptor-table register
TableRegisterWrite(call) ==
    /\ call.api \in X86WriteApis /\ Len(call.regs) = 1
    /\ call.regs[1] \in DOMAIN DT_OF
    /\ call.ret = UC_ERR_OK

\* the width of the base a mode transfers
BaseBytes(m) == IF m = 64 THEN 8 ELSE 4

\* C27 as stated: in every mode, a read that follows a write of GDTR, IDTR,
\* LDTR or TR returns the selector, base, limit and flags that were written.
C27_TableRegisterRoundTrip ==
    [][TableRegisterWrite(last') =>
           LET rd == ReadBack(Target(last', env', ctx'), last'.regs[1], last'.vals[1], mode)
           IN  rd.ret = UC_ERR_OK /\ rd.value = last'.vals[1]]_vars

\* C27, amended: a write of LDTR or TR replaces selector, base, limit and
\* flags together and a following read returns the 16-bit selector, the limit
\* and the flags that were written and the base cut to the width of the mode;
\* a write of GDTR or IDTR replaces the base, cut to the width of the mode, and
\* the low 16 bits of the limit only, and a following read returns those two
\* and leaves the selector and flags of the caller's tuple as they were. No
\* other part of the engine state changes.
C27_TableRegisterFields ==
    [][TableRegisterWrite(last') =>
           LET pre == Target(last', env, ctx)
               post == Target(last', env', ctx')
               id == last'.regs[1]
               f == DT_OF[id]
               v == last'.vals[1]
               base == Cast(Cast(v.base, BaseBytes(mode)), 8)
               rd == ReadBack(post, id, v, mode)
           IN  /\ rd.ret = UC_ERR_OK
               /\ post = [pre EXCEPT ![f] = post[f]]
               /\ id \in {"LDTR", "TR"} =>
                      /\ post[f] = [selector |-> Cast(v.selector, 4), base |-> base,
                                    limit |-> v.limit, flags |-> v.flags]
                      /\ rd.value = [v EXCEPT !.base = base]
               /\ id \in {"GDTR", "IDTR"} =>
                      /\ post[f] = [pre[f] EXCEPT !.base = base,
                                                  !.limit = Cast(Cast(v.limit, 2), 4)]
                      /\ rd.value = [PoisonMmr EXCEPT !.base = base,
                                                      !.limit = Cast(Cast(v.limit, 2), 4)]]_vars

\* GDTR was written in 32-bit mode with a base wider than 32 bits and a limit
\* wider than 16: the register holds the low parts of both
C27_Witness ==
    /\ TableRegisterWrite(last) /\ last.regs = <<"GDTR">> /\ last.api = "x86_reg_write"
    /\ mode = 32
    /\ env.gdt.base = Cast(Cast(last.vals[1].base, 4), 8)
    /\ env.gdt.base # last.vals[1].base
    /\ env.gdt.limit # last.vals[1].limit


-----------------------------------------------------------------------------
(* Which identifiers each direction knows.                                 *)

\* an x86 call for one identifier whose declared size, if there is one, is
\* the width of the identifier
MatchedCall(call, m) ==
    /\ call.api \in X86ReadApis \cup X86WriteApis
    /\ Len(call.regs) = 1
    /\ call.sizes # <<>> => call.sizes[1] = BaseWidth("x86", m, call.regs[1])

\* the identifier was known and its size right: the call went through, or a
\* selector was refused by the legality pre-check
Accepted(ret) == ret \in {UC_ERR_OK, UC_ERR_EXCEPTION}

\* C28: on x86, for every identifier and mode, a read with the matching
\* declared size is accepted exactly when a write with the matching declared
\* size is accepted (a selector the legality pre-check refuses aside): where
\* a write is accepted a read of the identifier is, and where a read is
\* accepted every write of it is, FS_BASE and GS_BASE included.
C28_ValidityIgnoresDirection ==
    [][MatchedCall(last', mode) =>
           LET pre == Target(last', env, ctx)
               id == last'.regs[1]
               cap == Capacity(working, last'.regs, last'.sizes, 1)
           IN  /\ last'.api \in X86WriteApis =>
                      (Accepted(last'.ret) <=>
                           reg_read(pre, id, ReadBackBuffer(id, last'.vals[1], cap),
                                    last'.sizes, mode).ret = UC_ERR_OK)
               /\ last'.api \in X86ReadApis =>
                      (last'.ret = UC_ERR_OK <=>
                           \A v \in WriteValues(working, id, cap) :
                               Accepted(reg_write(pre, id, v, last'.sizes, mode, FALSE).ret))]_vars


-----------------------------------------------------------------------------
(* The views of the instruction pointer.                                   *)

\* a successful x86 write of the single identifier id
WroteOne(call, id) == OneCall(call, X86WriteApis, id) /\ call.ret = UC_ERR_OK

\* the bytes of the instruction pointer from byte k on (the first is byte 1)
UpperBytes(e, k) == SubSeq(e.eip, k, 8)

\* C29: a write of IP puts its 16 bits in the low word of the instruction
\* pointer and leaves bits 16 and above unchanged, in 16/32-bit mode as in
\* 64-bit mode; a write of EIP in 64-bit mode puts its 32 bits in the low
\* half and leaves bits 32..63 unchanged.
C29_NarrowPcWriteKeepsUpperBits ==
    [][LET pre == Target(last', env, ctx)
           post == Target(last', env', ctx')
       IN  /\ WroteOne(last', "IP") =>
                  /\ SubSeq(post.eip, 1, 2) = Cast(last'.vals[1], 2)
                  /\ UpperBytes(post, 3) = UpperBytes(pre, 3)
           /\ (WroteOne(last', "EIP") /\ mode = 64) =>
                  /\ SubSeq(post.eip, 1, 4) = Cast(last'.vals[1], 4)
                  /\ UpperBytes(post, 5) = UpperBytes(pre, 5)]_vars


\* the record after the routine that belongs to the identifier has run on e
\* with the value v: CR0, CR3 and CR4 have one, CR1 and CR2 have none
OwnRoutine(e, id, v) ==
    IF id = "CR0" THEN cpu_x86_update_cr0(e, v)
    ELSE IF id = "CR3" THEN cpu_x86_update_cr3(e, v)
    ELSE IF id = "CR4" THEN cpu_x86_update_cr4(e, v)
    ELSE e

\* C30: a control-register write that succeeds leaves the record the routine
\* of that register alone makes of the state before the call, given the value
\* at the caller's full width, with that value in the slot of the register: a
\* write of CR1 or CR2 changes its slot and nothing else, and no write changes
\* the slot of another control register.
C30_OnlyOwnRoutineRuns ==
    [][CrCall(last', X86WriteApis) =>
           LET pre == Target(last', env, ctx)
               post == Target(last', env', ctx')
               id == last'.regs[1]
               k == IndexOf(X86_CR, id)
               v == Cast(last'.vals[1], CrWidth(mode))
           IN  /\ post = [OwnRoutine(pre, id, v) EXCEPT !.cr[k] = Cast(v, 8)]
               /\ \A j \in DOMAIN pre.cr \ {k} : post.cr[j] = pre.cr[j]]_vars

============================================================================
